---- MODULE Spec2Model ----
(***************************************************************************)
(* A model of the sales RAG pipeline: the aggregation engine               *)
(* (src/src/data/processor.py), the embedding generator with its rate      *)
(* limiter and retry wrapper (src/src/embeddings/generator.py), the vector *)
(* store (src/src/embeddings/storage.py) and the agent's generation call   *)
(* (src/src/agent/sales_agent.py).                                         *)
(*                                                                         *)
(* Numbers: sales amounts are integers; a float that the code obtains by   *)
(* a division is kept as the exact fraction [num, den] (den = 0 is the     *)
(* NaN/inf the division yields), so that equalities and bounds are exact.  *)
(***************************************************************************)
EXTENDS Integers, Sequences, FiniteSets, TLC

VARIABLES
    \* SalesDataProcessor
    df,                  \* self.df: [is_none, rows, cleaned]: None or the frame, with
                         \* its rows and whether clean_data has converted its columns
    customer_profiles,   \* self.customer_profiles: name -> CustomerProfile
    product_catalog,     \* self.product_catalog: "<line>_<code>" -> dict
    territory_analysis,  \* self.territory_analysis: territory -> dict
    proc_result,         \* what the last process_all call did
    proc_runs,           \* number of process_all calls made on the processor
    \* EmbeddingGenerator and the batch coroutine running on it
    groq_api_key,        \* settings.GROQ_API_KEY ("" when absent)
    now,                 \* time.time(), in seconds
    rate_limit_tracker,  \* self.rate_limit_tracker
    gen_pc,              \* where the batch coroutine stands
    batch,               \* the running batch: [kind, input, todo, embeddings]
    call,                \* the enhance_text_with_groq call in progress or last made
    gen_result,          \* what the last batch returned
    gen_error,           \* the exception that left the last batch
    encode_log,          \* outcomes of embedding_model.encode in the running batch
    groq_starts,         \* the times at which the latest requests to the generation
                         \* service started (those of the last RATE_WINDOW seconds)
    \* QdrantStorage and the collection it talks to
    collection_exists,   \* the target collection is present in the database
    points,              \* the points of the collection
    next_uuid,           \* uuid4 values handed out so far
    store_return,        \* what the last store, clear or ensure call returned
    stored_log,          \* the dicts stored since the collection was last dropped
    store_calls,         \* number of store_embeddings calls made
    db_sent,             \* the requests the last storage call sent to the database
    db_outcome,          \* how that call ended: "returned", or a request failed and the
                         \* exception was "caught" or "raised" to the caller
    search_return,       \* the last category search: its arguments and its result
    stats_return,        \* what the last get_collection_stats returned
    other_requests,      \* the requests other clients of the database have had
                         \* answered since the last storage call began
    \* SmartSalesAgent
    agent_pc,            \* where the request in progress stands
    agent_req,           \* the request: its context and the state of its call
    agent_result,        \* the dict returned to the caller
    \* the application around them
    startup,             \* how far lifespan (main.py) got
    setup_pc,            \* how far main (run_setup.py) got
    setup_locals,        \* the dicts its three batches returned
    storage_pc,          \* the request a storage call in progress sends next
    storage_locals,      \* the local variables of that call, and the points the
                         \* collection held when the last clear_collection began
    threshold_strict,    \* the database server keeps only the scores above the
                         \* threshold of a search (otherwise: at or above it)
    peer_pc,             \* a second request of the agent, in progress at the
    peer_req,            \* same time as the first: its position, its state and
    peer_result          \* its result

procVars == <<df, customer_profiles, product_catalog, territory_analysis,
              proc_result, proc_runs>>

genVars == <<groq_api_key, now, rate_limit_tracker, gen_pc, batch, call,
             gen_result, gen_error, encode_log, groq_starts>>

storeVars == <<collection_exists, points, next_uuid, store_return, stored_log,
               store_calls, db_sent, db_outcome, search_return, stats_return,
               other_requests>>

agentVars == <<agent_pc, agent_req, agent_result>>

appVars == <<startup, setup_pc, setup_locals, storage_pc, storage_locals,
             threshold_strict, peer_pc, peer_req, peer_result>>

vars == <<procVars, genVars, storeVars, agentVars, appVars>>

----------------------------------------------------------------------------
(* Bounds of the model *)

\* Number of rows of a source file.
MaxRows == 2

\* Number of process_all calls on one processor.
MaxProcRuns == 2

\* The clock stops ticking on its own after MaxTime seconds.
MaxTime == 80

\* Number of batches run on one generator.
MaxBatches == 3

\* Number of store_embeddings calls on one collection.
MaxStores == 3

\* Number of requests of other clients the database answers during one storage
\* call and until the next begins.
MaxOtherRequests == 2

----------------------------------------------------------------------------
(* Values *)

\* A missing numeric cell (numpy NaN); real amounts of the model are >= 0.
NaN == -1

\* A missing text cell: read_csv turns the cell "NaN" (and "NA", "") into NaN.
NaNStr == "NaN"

\* A dict: its keys in the order of their insertion, and the value of each key.
\* An empty dict.
EmptyDict == [keys |-> <<>>, val |-> [k \in {} |-> 0]]

\* d.keys() as a set
Keys(d) == DOMAIN d.val

\* d.items(): the keys in insertion order
Items(d) == d.keys

\* the keys of the model as Python's string comparison orders them
StringOrder == <<"Acme", "Bolt", "Cars_S10", "Cars_S18", "Cody", "Dana", "EMEA">>

\* the group keys in the order groupby (sort=True) yields its groups
Sorted(S) == SelectSeq(StringOrder, LAMBDA k : k \in S)

\* the keys of a sequence of keys
Range(ks) == {ks[i] : i \in 1..Len(ks)}

\* d[k] = v[k] for every k of the sequence ks in turn: an existing key keeps
\* its position and takes the new value, a new key goes to the end
Assigned(d, ks, v) ==
    [keys |-> d.keys \o SelectSeq(ks, LAMBDA k : k \notin DOMAIN d.val),
     val |-> [k \in DOMAIN d.val \cup Range(ks) |->
                 IF k \in Range(ks) THEN v[k] ELSE d.val[k]]]

\* d[k] = v
Put(d, k, v) == Assigned(d, <<k>>, [x \in {k} |-> v])

RECURSIVE SumSeq(_)
SumSeq(s) == IF s = <<>> THEN 0 ELSE s[1] + SumSeq(Tail(s))

RECURSIVE MaxSeq(_)
\* max of a sequence of numbers >= 0, NaN for the empty sequence
MaxSeq(s) ==
    IF s = <<>> THEN NaN
    ELSE LET m == MaxSeq(Tail(s)) IN IF s[1] > m THEN s[1] ELSE m

\* Series.dropna(): the non-missing values of a numeric column, in order
NotNaN(s) == SelectSeq(s, LAMBDA x : x # NaN)

\* the non-missing values of a text column, in order
NotNaNStr(s) == SelectSeq(s, LAMBDA x : x # NaNStr)

\* a column of a frame
Col(rows, f) == [i \in 1..Len(rows) |-> rows[i][f]]

\* Series.sum(): missing values are skipped, the sum of none is 0
ColSum(s) == SumSeq(NotNaN(s))

\* Series.count(): the number of non-missing values
ColCount(s) == Len(NotNaN(s))

\* Series.mean(): the sum over the count of the non-missing values (NaN: den = 0)
ColMean(s) == [num |-> ColSum(s), den |-> ColCount(s)]

\* Series.max(): missing values are skipped, NaN when none is left
ColMax(s) == MaxSeq(NotNaN(s))

\* Series.unique(): the distinct values in order of appearance, NaN included
RECURSIVE Unique(_)
Unique(s) ==
    IF s = <<>> THEN <<>>
    ELSE LET init == Unique(SubSeq(s, 1, Len(s) - 1))
             last == s[Len(s)]
         IN  IF \E i \in 1..Len(init) : init[i] = last THEN init
             ELSE Append(init, last)

\* the distinct non-missing values of a text column
ValueSet(s) == {s[i] : i \in 1..Len(s)} \ {NaNStr}

Occurrences(s, v) == Cardinality({i \in 1..Len(s) : s[i] = v})

FirstIndex(s, v) == CHOOSE i \in 1..Len(s) : s[i] = v /\ \A j \in 1..(i - 1) : s[j] # v

\* Series.value_counts().index[0]: the most frequent non-missing value (the first
\* encountered among the most frequent); the code raises IndexError when the
\* column holds no value, which callers test with ValueSet(s) = {}
MostFrequent(s) ==
    CHOOSE v \in ValueSet(s) :
        \A w \in ValueSet(s) \ {v} :
            \/ Occurrences(s, v) > Occurrences(s, w)
            \/ /\ Occurrences(s, v) = Occurrences(s, w)
               /\ FirstIndex(s, v) < FirstIndex(s, w)

\* GroupBy.first(): the first non-missing value of the group, NaN when none
FirstStr(s) == IF NotNaNStr(s) = <<>> THEN NaNStr ELSE NotNaNStr(s)[1]

----------------------------------------------------------------------------
(* The source file *)

CustomerNames == {"Acme", "Bolt"}
ProductLines == {"Cars"}
ProductCodes == {"S10", "S18"}
Territories == {"EMEA", NaNStr}
RawSales == {"100", "x"}
DealSizes == {"Small", NaNStr}
RawDates == {"2003-01-06", "bad"}

\* the rows a source file may hold (cells as read_csv reads them)
RawRows ==
    [ORDERNUMBER : {10100}, ORDERDATE : RawDates, CUSTOMERNAME : CustomerNames,
     PRODUCTLINE : ProductLines, PRODUCTCODE : ProductCodes,
     TERRITORY : Territories, SALES : RawSales, QUANTITYORDERED : {30},
     DEALSIZE : DealSizes, STATUS : {"Shipped"}]

\* a readable source file: 1..MaxRows rows
Sources == UNION {[1..n -> RawRows] : n \in 1..MaxRows}

----------------------------------------------------------------------------
(* clean_data *)

\* pd.to_numeric(errors='coerce') on a cell
ToNumeric(cell) ==
    CASE cell = "100" -> 100
      [] cell = "200" -> 200
      [] OTHER -> NaN

\* pd.to_datetime on a cell: a date as yyyymmdd; the call raises on "bad"
DateParses(cell) == cell # "bad"

ToDatetime(cell) ==
    CASE cell = "2003-01-06" -> 20030106
      [] OTHER -> NaN

\* DataFrame.drop_duplicates(): the first occurrence of each row is kept
DropDuplicates(rows) == Unique(rows)

\* clean_data raises (line 93 has no errors='coerce')
CleanRaises(rows) == \E i \in 1..Len(rows) : ~DateParses(rows[i].ORDERDATE)

CleanData(rows) ==
    DropDuplicates(
        [i \in 1..Len(rows) |->
            [rows[i] EXCEPT !.ORDERDATE = ToDatetime(@),
                            !.SALES = ToNumeric(@)]])

----------------------------------------------------------------------------
(* create_customer_profiles *)

\* the rows of one group of a groupby
Group(rows, f, v) == SelectSeq(rows, LAMBDA r : r[f] = v)

\* the keys of df.groupby(f): rows with a missing key are dropped
GroupKeys(rows, f) == {rows[i][f] : i \in 1..Len(rows)} \ {NaNStr}

CustomerProfile(rows, name) ==
    LET g == Group(rows, "CUSTOMERNAME", name) IN
    [name |-> name,
     territory |-> FirstStr(Col(g, "TERRITORY")),
     total_orders |-> ColCount(Col(g, "ORDERNUMBER")),
     total_sales |-> ColSum(Col(g, "SALES")),
     avg_order_value |-> ColMean(Col(g, "SALES")),
     preferred_products |-> <<MostFrequent(Col(g, "PRODUCTLINE"))>>,
     deal_sizes |-> Unique(Col(g, "DEALSIZE")),
     last_order_date |-> ColMax(Col(g, "ORDERDATE")),
     customer_status |->
        IF \E i \in 1..Len(g) : g[i].STATUS = "Shipped" THEN "Active" ELSE "Inactive"]

\* the lambda of line 117 raises IndexError on a group without a product line
CustomerProfilesRaises(rows) ==
    \E c \in GroupKeys(rows, "CUSTOMERNAME") :
        ValueSet(Col(Group(rows, "CUSTOMERNAME", c), "PRODUCTLINE")) = {}

\* self.customer_profiles after the loop of lines 137-154: assigned per key,
\* nothing removed
CreateCustomerProfiles(old, rows) ==
    Assigned(old, Sorted(GroupKeys(rows, "CUSTOMERNAME")),
             [k \in GroupKeys(rows, "CUSTOMERNAME") |-> CustomerProfile(rows, k)])

----------------------------------------------------------------------------
(* analyze_product_catalog and _calculate_product_performance *)

\* the (line, code) pairs of df.groupby(['PRODUCTLINE', 'PRODUCTCODE'])
ProductGroups(rows) ==
    {<<rows[i].PRODUCTLINE, rows[i].PRODUCTCODE>> : i \in 1..Len(rows)}
        \ {p \in {NaNStr} \X {rows[i].PRODUCTCODE : i \in 1..Len(rows)} : TRUE}

ProductRows(rows, p) ==
    SelectSeq(rows, LAMBDA r : r.PRODUCTLINE = p[1] /\ r.PRODUCTCODE = p[2])

\* f"{row['product_line']}_{row['product_code']}"
ProductKey(p) ==
    CASE p = <<"Cars", "S10">> -> "Cars_S10"
      [] p = <<"Cars", "S18">> -> "Cars_S18"

\* a ratio "x / m if m > 0 else 0" (m is NaN, so not > 0, when no value exists)
Ratio(x, m) == IF m > 0 THEN [num |-> x, den |-> m] ELSE [num |-> 0, den |-> 1]

\* max_sales of line 224: the largest SALES cell of the frame
MaxSales(rows) == ColMax(Col(rows, "SALES"))

\* max_orders of line 225: the largest per-PRODUCTCODE count of order numbers
MaxOrders(rows) ==
    MaxSeq(LET codes == GroupKeys(rows, "PRODUCTCODE")
               n(c) == ColCount(Col(Group(rows, "PRODUCTCODE", c), "ORDERNUMBER"))
               RECURSIVE AsSeq(_)
               AsSeq(S) == IF S = {} THEN <<>>
                           ELSE LET c == CHOOSE c \in S : TRUE
                                IN  <<n(c)>> \o AsSeq(S \ {c})
           IN  AsSeq(codes))

\* max_quantity of line 226: the largest per-PRODUCTCODE quantity sum
MaxQuantity(rows) ==
    MaxSeq(LET codes == GroupKeys(rows, "PRODUCTCODE")
               n(c) == ColSum(Col(Group(rows, "PRODUCTCODE", c), "QUANTITYORDERED"))
               RECURSIVE AsSeq(_)
               AsSeq(S) == IF S = {} THEN <<>>
                           ELSE LET c == CHOOSE c \in S : TRUE
                                IN  <<n(c)>> \o AsSeq(S \ {c})
           IN  AsSeq(codes))

\* the three normalised metrics of lines 228-230
SalesScore(rows, total_sales) == Ratio(total_sales, MaxSales(rows))
OrderScore(rows, order_count) == Ratio(order_count, MaxOrders(rows))
QuantityScore(rows, total_quantity) == Ratio(total_quantity, MaxQuantity(rows))

\* sales_score * 0.5 + order_score * 0.3 + quantity_score * 0.2, as one fraction
WeightedAverage(s, o, q) ==
    [num |-> 5 * s.num * o.den * q.den + 3 * o.num * s.den * q.den
             + 2 * q.num * s.den * o.den,
     den |-> 10 * s.den * o.den * q.den]

ProductEntry(rows, p) ==
    LET g == ProductRows(rows, p)
        total_sales == ColSum(Col(g, "SALES"))
        order_count == ColCount(Col(g, "SALES"))
        total_quantity == ColSum(Col(g, "QUANTITYORDERED"))
        s == SalesScore(rows, total_sales)
        o == OrderScore(rows, order_count)
        q == QuantityScore(rows, total_quantity)
    IN  [product_line |-> p[1],
         product_code |-> p[2],
         total_sales |-> total_sales,
         avg_sales |-> ColMean(Col(g, "SALES")),
         order_count |-> order_count,
         total_quantity |-> total_quantity,
         typical_deal_size |-> MostFrequent(Col(g, "DEALSIZE")),
         sales_score |-> s,
         order_score |-> o,
         quantity_score |-> q,
         performance_score |-> WeightedAverage(s, o, q)]

\* the lambda of line 167 raises IndexError on a group whose deal sizes are all
\* missing (len(x) > 0 counts the missing ones, value_counts() does not)
ProductCatalogRaises(rows) ==
    \E p \in ProductGroups(rows) : ValueSet(Col(ProductRows(rows, p), "DEALSIZE")) = {}

\* self.product_catalog after the loop of lines 175-187
AnalyzeProductCatalog(old, rows) ==
    LET pair(k) == CHOOSE p \in ProductGroups(rows) : ProductKey(p) = k
        keys == {ProductKey(p) : p \in ProductGroups(rows)}
    IN  Assigned(old, Sorted(keys), [k \in keys |-> ProductEntry(rows, pair(k))])

----------------------------------------------------------------------------
(* analyze_territories *)

TerritoryEntry(rows, t) ==
    LET g == Group(rows, "TERRITORY", t)
        total_sales == ColSum(Col(g, "SALES"))
    IN  [total_sales |-> total_sales,
         avg_sales |-> ColMean(Col(g, "SALES")),
         total_orders |-> ColCount(Col(g, "SALES")),
         unique_customers |-> Cardinality(ValueSet(Col(g, "CUSTOMERNAME"))),
         top_products |-> ValueSet(Col(g, "PRODUCTLINE")),
         \* row['total_sales'] / self.df['SALES'].sum() * 100
         market_share |-> [num |-> total_sales * 100, den |-> ColSum(Col(rows, "SALES"))]]

\* self.territory_analysis after the loop of lines 208-217
AnalyzeTerritories(old, rows) ==
    Assigned(old, Sorted(GroupKeys(rows, "TERRITORY")),
             [k \in GroupKeys(rows, "TERRITORY") |-> TerritoryEntry(rows, k)])

----------------------------------------------------------------------------
(* process_all *)

InitProcessor ==
    /\ df = [is_none |-> TRUE, rows |-> <<>>, cleaned |-> FALSE]
    /\ customer_profiles = EmptyDict
    /\ product_catalog = EmptyDict
    /\ territory_analysis = EmptyDict
    /\ proc_result = "none"
    /\ proc_runs = 0

\* a process_all that goes on after a failed load: the row read before the
\* failure is cleaned and aggregated, then the error is returned
LoadFailedAfterAggregation ==
    LET rows == CleanData(<<[ORDERNUMBER |-> 10100, ORDERDATE |-> "2003-01-06",
                             CUSTOMERNAME |-> "Acme", PRODUCTLINE |-> "Cars",
                             PRODUCTCODE |-> "S10", TERRITORY |-> "EMEA",
                             SALES |-> "100", QUANTITYORDERED |-> 30,
                             DEALSIZE |-> "Small", STATUS |-> "Shipped"]>>)
    IN  /\ proc_runs' = proc_runs + 1
        /\ proc_result' = "load_error"
        /\ df' = [is_none |-> FALSE, rows |-> rows, cleaned |-> TRUE]
        /\ customer_profiles' = CreateCustomerProfiles(customer_profiles, rows)
        /\ product_catalog' = AnalyzeProductCatalog(product_catalog, rows)
        /\ territory_analysis' = AnalyzeTerritories(territory_analysis, rows)

\* what process_all does to the processor when load_data fails: it returns
\* {'error': ...} (lines 256-257) and nothing else runs
LoadFailed ==
    /\ proc_runs' = proc_runs + 1
    /\ proc_result' = "load_error"
    /\ UNCHANGED <<df, customer_profiles, product_catalog, territory_analysis>>

\* process_all on a source that does not load, as a call of its own
ProcessAllLoadError ==
    /\ proc_runs < MaxProcRuns
    /\ LoadFailed
    /\ UNCHANGED <<appVars, genVars, storeVars, agentVars>>

\* what process_all does to the processor when load_data succeeds: clean_data,
\* the three aggregations and the summary run in turn, and the first that raises
\* ends the call
Processed(source) ==
    /\ proc_runs' = proc_runs + 1
    /\ IF CleanRaises(source)
       THEN /\ df' = [is_none |-> FALSE, rows |-> source, cleaned |-> FALSE]
            /\ proc_result' = "raised"
            /\ UNCHANGED <<customer_profiles, product_catalog, territory_analysis>>
       ELSE LET rows == CleanData(source) IN
            /\ df' = [is_none |-> FALSE, rows |-> rows, cleaned |-> TRUE]
            /\ IF CustomerProfilesRaises(rows)
               THEN /\ proc_result' = "raised"
                    /\ UNCHANGED <<customer_profiles, product_catalog,
                                   territory_analysis>>
               ELSE /\ customer_profiles' =
                            CreateCustomerProfiles(customer_profiles, rows)
                    /\ IF ProductCatalogRaises(rows)
                       THEN /\ proc_result' = "raised"
                            /\ UNCHANGED <<product_catalog, territory_analysis>>
                       ELSE /\ product_catalog' =
                                    AnalyzeProductCatalog(product_catalog, rows)
                            /\ territory_analysis' =
                                    AnalyzeTerritories(territory_analysis, rows)
                            /\ proc_result' = "summary"

\* process_all on a source that loads, as a call of its own
ProcessAll(source) ==
    /\ proc_runs < MaxProcRuns
    /\ Processed(source)
    /\ UNCHANGED <<appVars, genVars, storeVars, agentVars>>


----------------------------------------------------------------------------
(* EmbeddingGenerator: settings *)

\* settings.RATE_LIMIT_REQUESTS (environment, default 30); the model runs with 2
RATE_LIMIT_REQUESTS == 2

\* the window of _check_rate_limit, in seconds
RATE_WINDOW == 60

\* settings.EMBEDDING_DIMENSION
EMBEDDING_DIMENSION == 384

\* stop_after_attempt(3) of both retry decorators
STOP_AFTER_ATTEMPT == 3

\* wait_exponential(min=4) of enhance_text_with_groq: the shortest wait
RETRY_WAIT_MIN == 4

----------------------------------------------------------------------------
(* _check_rate_limit *)

\* lines 29-32: the timestamps younger than the window are kept
Pruned(tracker, current_time) ==
    SelectSeq(tracker, LAMBDA req_time : current_time - req_time < RATE_WINDOW)

\* line 34
MustSleep(tracker) == Len(tracker) >= RATE_LIMIT_REQUESTS

\* line 35 measured from the newest timestamp instead of the oldest
SleepTimeFromNewest(tracker, current_time) ==
    RATE_WINDOW - (current_time - tracker[Len(tracker)])

\* line 35
SleepTime(tracker, current_time) == RATE_WINDOW - (current_time - tracker[1])

\* the starts of requests to the generation service when one starts at time t:
\* those less than RATE_WINDOW seconds before it, and t
Started(starts, t) ==
    Append(SelectSeq(starts, LAMBDA s : t - s < RATE_WINDOW), t)

\* _check_rate_limit entered at time t: up to time.sleep, or through to the append
\* of line 39 and on to the request, which starts then
CheckRateLimit(t, attempt_number, text) ==
    LET kept == Pruned(rate_limit_tracker, t) IN
    IF MustSleep(kept)
    THEN /\ rate_limit_tracker' = kept
         /\ UNCHANGED groq_starts
         /\ gen_pc' = "sleeping"
         /\ call' = [text |-> text, attempt_number |-> attempt_number,
                     current_time |-> t, blocked |-> TRUE,
                     wake_at |-> t + SleepTime(kept, t),
                     state |-> "pending", failed |-> FALSE, returned |-> text]
    ELSE /\ rate_limit_tracker' = Append(kept, t)
         /\ groq_starts' = Started(groq_starts, t)
         /\ gen_pc' = "calling"
         /\ call' = [text |-> text, attempt_number |-> attempt_number,
                     current_time |-> t, blocked |-> FALSE, wake_at |-> t,
                     state |-> "pending", failed |-> FALSE, returned |-> text]

----------------------------------------------------------------------------
(* Texts and vectors *)

\* create_customer_text / create_product_text / create_territory_text: the text
\* is a fixed template filled with the entity's fields
BaseText(kind, key) == [template |-> kind, key |-> key, enriched |-> FALSE]

\* response.choices[0].message.content.strip(): the service's rewrite of a text
Enriched(text) == [text EXCEPT !.enriched = TRUE]

\* line 98: ', '.join(deal_sizes) raises TypeError on a missing (float NaN) entry
CreateCustomerTextRaises(profile) ==
    \E i \in 1..Len(profile.deal_sizes) : profile.deal_sizes[i] = NaNStr

\* create_*_text raises on this entity? (the product and territory templates
\* format numbers and strings only)
CreateTextRaises(kind, entity) ==
    kind = "customer" /\ CreateCustomerTextRaises(entity)

\* np.zeros(settings.EMBEDDING_DIMENSION)
Zeros(n) == [i \in 1..n |-> 0]

\* embedding_model.encode(text): a vector of the model's dimension, not zero
Encode(text) ==
    [i \in 1..EMBEDDING_DIMENSION |->
        IF i = (IF text.enriched THEN 2 ELSE 1) THEN 1 ELSE 0]

\* generate_text_embedding falling back to a vector of another model's size
GenerateTextEmbeddingWrongSize(outcome, text) ==
    IF outcome = "ok" THEN Encode(text) ELSE Zeros(2 * EMBEDDING_DIMENSION)

\* generate_text_embedding: encode, or the zero vector when encode raises
GenerateTextEmbedding(outcome, text) ==
    IF outcome = "ok" THEN Encode(text) ELSE Zeros(EMBEDDING_DIMENSION)

\* enhance_text_with_groq without its except clause: the exception reaches the
\* retry wrapper
EnhanceBodyUncaught(outcome, text) ==
    IF outcome = "ok"
    THEN [raised |-> FALSE, value |-> Enriched(text)]
    ELSE [raised |-> TRUE, value |-> text]

\* the try/except of enhance_text_with_groq (lines 55-83) for one outcome of the
\* request: the content on success, the text it was given on any exception
EnhanceBody(outcome, text) ==
    IF outcome = "ok"
    THEN [raised |-> FALSE, value |-> Enriched(text)]
    ELSE [raised |-> FALSE, value |-> text]

\* tenacity's retry: the call is made again while it raises and attempts are left
RetryAgain(raised, attempt_number) == raised /\ attempt_number < STOP_AFTER_ATTEMPT

\* the 'metadata' of a record (lines 174-179, 214-219, 253-258)
Metadata(kind, entity) ==
    CASE kind = "customer" ->
            [type |-> "customer", territory |-> entity.territory,
             total_sales |-> entity.total_sales,
             customer_status |-> entity.customer_status]
      [] kind = "product" ->
            [type |-> "product", product_line |-> entity.product_line,
             performance_score |-> entity.performance_score,
             typical_deal_size |-> entity.typical_deal_size]
      [] kind = "territory" ->
            [type |-> "territory", market_share |-> entity.market_share,
             total_sales |-> entity.total_sales,
             unique_customers |-> entity.unique_customers]

\* embeddings[key] = {...} (lines 170-180)
EmbeddingRecord(kind, entity, text, embedding) ==
    [text |-> text, embedding |-> embedding, metadata |-> Metadata(kind, entity)]

----------------------------------------------------------------------------
(* generate_customer_embeddings, generate_product_embeddings,                *)
(* generate_territory_embeddings                                             *)

\* call: the enhance_text_with_groq call of the batch in progress or last made: the text it
\* was given, the attempt it is at, the limiter's current_time, whether it slept
\* and until when, how it ended and whether the service failed it
NoCall ==
    [text |-> BaseText("none", "none"), attempt_number |-> 0, current_time |-> 0,
     blocked |-> FALSE, wake_at |-> 0, state |-> "none", failed |-> FALSE,
     returned |-> BaseText("none", "none")]

\* batch: the dict iterated, the keys still to visit, the local `embeddings`, the
\* keys whose text was not enriched, and the number of batches started
NoBatch == [kind |-> "none", input |-> EmptyDict, todo |-> <<>>,
            embeddings |-> EmptyDict, plain |-> {}, count |-> 0]

InitGenerator ==
    /\ groq_api_key \in {"", "gsk"}
    /\ now = 0
    /\ rate_limit_tracker = <<>>
    /\ gen_pc = "idle"
    /\ batch = NoBatch
    /\ call = NoCall
    /\ gen_result = EmptyDict
    /\ gen_error = "none"
    /\ encode_log = <<>>
    /\ groq_starts = <<>>

\* main of run_setup.py before its batches: no batch has returned
NoEmbeddings == [customer |-> EmptyDict, product |-> EmptyDict, territory |-> EmptyDict]

\* where main of run_setup.py stands while its batches run: in the customer
\* batch (lines 50-52), the product batch (55-57), the territory batch (60-62)
BatchStages == <<"customers", "products", "territories">>

InBatches == \E i \in 1..Len(BatchStages) : setup_pc = BatchStages[i]

\* the batch awaited by main returns its dict, which main keeps, and main goes
\* on to the next batch or to the merge (line 66); or it raises, and the
\* exception reaches the except clause of line 86: main returns False
BatchEnds(raised) ==
    IF ~InBatches
    THEN UNCHANGED <<setup_pc, setup_locals>>
    ELSE IF raised
    THEN /\ setup_pc' = "returned_False"
         /\ UNCHANGED setup_locals
    ELSE /\ setup_pc' = CASE setup_pc = "customers" -> "products"
                           [] setup_pc = "products" -> "territories"
                           [] setup_pc = "territories" -> "store"
         /\ setup_locals' = [setup_locals EXCEPT ![batch.kind] = batch.embeddings]

\* the application beside a batch, main of run_setup.py apart
appBesideBatch == <<startup, storage_pc, storage_locals, threshold_strict,
                    peer_pc, peer_req, peer_result>>

BatchInput(kind) ==
    CASE kind = "customer" -> customer_profiles
      [] kind = "product" -> product_catalog
      [] kind = "territory" -> territory_analysis

\* a batch coroutine starts on `input` (lines 148-152): it enters its loop
BatchStarted(kind, input) ==
    /\ batch' = [kind |-> kind, input |-> input,
                 todo |-> Items(input), embeddings |-> EmptyDict,
                 plain |-> {}, count |-> batch.count + 1]
    /\ gen_pc' = "loop"
    /\ gen_error' = "none"
    /\ gen_result' = EmptyDict
    /\ encode_log' = <<>>
    /\ call' = NoCall
    /\ UNCHANGED <<groq_api_key, now, rate_limit_tracker, groq_starts>>

\* a batch coroutine is started on the aggregates of the processor
StartBatch(kind) ==
    /\ gen_pc \in {"idle", "returned", "raised"}
    /\ proc_result = "summary"
    /\ batch.count < MaxBatches
    /\ BatchStarted(kind, BatchInput(kind))
    /\ UNCHANGED <<appVars, procVars, storeVars, agentVars>>

\* the item is done: its record is stored and the loop moves on (lines 167-183)
FinishItem(enhanced_text, enc) ==
    LET key == Head(batch.todo)
        entity == batch.input.val[key]
    IN  /\ batch' = [batch EXCEPT
                        !.todo = Tail(@),
                        !.plain = IF enhanced_text.enriched THEN @ ELSE @ \cup {key},
                        !.embeddings = Put(@, key,
                            EmbeddingRecord(batch.kind, entity, enhanced_text,
                                            GenerateTextEmbedding(enc, enhanced_text)))]
        /\ encode_log' = Append(encode_log, enc)

\* one pass of the loop body up to the first suspension: the text is created, and
\* with a credential enhance_text_with_groq enters _check_rate_limit; without one
\* the base text is embedded at once
BatchItem(enc) ==
    /\ gen_pc = "loop"
    /\ batch.todo # <<>>
    /\ LET key == Head(batch.todo)
           entity == batch.input.val[key]
       IN  IF CreateTextRaises(batch.kind, entity)
           THEN /\ gen_pc' = "raised"
                /\ gen_error' = "create_text"
                /\ BatchEnds(TRUE)
                /\ UNCHANGED <<batch, rate_limit_tracker, call, encode_log,
                               groq_starts>>
           ELSE IF groq_api_key # ""
           THEN /\ CheckRateLimit(now, 1, BaseText(batch.kind, key))
                /\ UNCHANGED <<batch, gen_error, encode_log, setup_pc, setup_locals>>
           ELSE /\ FinishItem(BaseText(batch.kind, key), enc)
                /\ UNCHANGED <<gen_pc, gen_error, rate_limit_tracker, call,
                               groq_starts, setup_pc, setup_locals>>
    /\ UNCHANGED <<groq_api_key, now, gen_result>>
    /\ UNCHANGED <<appBesideBatch, procVars, storeVars, agentVars>>

\* time.sleep(sleep_time) returns (not before sleep_time has passed), line 39
\* appends the time read before the sleep, and the request starts
RateLimitWake(late) ==
    /\ gen_pc = "sleeping"
    /\ now' = (IF now > call.wake_at THEN now ELSE call.wake_at) + late
    /\ rate_limit_tracker' = Append(rate_limit_tracker, call.current_time)
    /\ groq_starts' = Started(groq_starts, now')
    /\ gen_pc' = "calling"
    /\ UNCHANGED <<groq_api_key, batch, call, gen_result, gen_error, encode_log>>
    /\ UNCHANGED <<appVars, procVars, storeVars, agentVars>>

\* the request to the generation service ends with `outcome`; the retry wrapper
\* decides; on a return the text is embedded and the record stored
GroqCall(outcome, enc) ==
    /\ gen_pc = "calling"
    /\ LET body == EnhanceBody(outcome, call.text) IN
       IF RetryAgain(body.raised, call.attempt_number)
       THEN /\ CheckRateLimit(now + RETRY_WAIT_MIN, call.attempt_number + 1, call.text)
            /\ now' = now + RETRY_WAIT_MIN
            /\ UNCHANGED <<batch, gen_error, encode_log, setup_pc, setup_locals>>
       ELSE IF body.raised
       THEN /\ gen_pc' = "raised"
            /\ gen_error' = "RetryError"
            /\ call' = [call EXCEPT !.failed = TRUE, !.state = "raised"]
            /\ BatchEnds(TRUE)
            /\ UNCHANGED <<batch, now, rate_limit_tracker, encode_log, groq_starts>>
       ELSE /\ FinishItem(body.value, enc)
            /\ call' = [call EXCEPT !.failed = (outcome # "ok"),
                                    !.state = "returned",
                                    !.returned = body.value]
            /\ gen_pc' = "loop"
            /\ UNCHANGED <<now, rate_limit_tracker, gen_error, groq_starts,
                           setup_pc, setup_locals>>
    /\ UNCHANGED <<groq_api_key, gen_result>>
    /\ UNCHANGED <<appBesideBatch, procVars, storeVars, agentVars>>

\* the loop is over: the batch returns its embeddings (lines 185-186)
BatchReturn ==
    /\ gen_pc = "loop"
    /\ batch.todo = <<>>
    /\ gen_pc' = "returned"
    /\ gen_result' = batch.embeddings
    /\ BatchEnds(FALSE)
    /\ UNCHANGED <<groq_api_key, now, rate_limit_tracker, batch, call, gen_error,
                   encode_log, groq_starts>>
    /\ UNCHANGED <<appBesideBatch, procVars, storeVars, agentVars>>

\* time passes (between items: asyncio.sleep(0.1); during a request: the round trip)
TickSteps == {20, 40}

Tick(d) ==
    /\ gen_pc # "sleeping"
    /\ now < MaxTime
    /\ now' = now + d
    /\ UNCHANGED <<groq_api_key, rate_limit_tracker, gen_pc, batch, call,
                   gen_result, gen_error, encode_log, groq_starts>>
    /\ UNCHANGED <<appVars, procVars, storeVars, agentVars>>

----------------------------------------------------------------------------
(* QdrantStorage *)

\* {**customer_embeddings, **product_embeddings, **territory_embeddings}: a key
\* of a later dict replaces the same key of an earlier one
MergeDicts(a, b) == Assigned(a, Items(b), b.val)

\* what a batch returns when no call fails and no credential is set
BatchResult(kind, input) ==
    Assigned(EmptyDict, Items(input), [k \in Keys(input) |->
        EmbeddingRecord(kind, input.val[k], BaseText(kind, k),
                        GenerateTextEmbedding("ok", BaseText(kind, k)))])

\* what a batch returns on `input` when the enrichment succeeds on the keys of
\* plan.rich (a credential is set) and the embedding model fails on the keys of
\* plan.zero
BatchResultWith(kind, input, plan) ==
    LET Text(k) == IF k \in plan.rich
                   THEN EnhanceBody("ok", BaseText(kind, k)).value
                   ELSE EnhanceBody("fail", BaseText(kind, k)).value
    IN  Assigned(EmptyDict, Items(input), [k \in Keys(input) |->
            EmbeddingRecord(kind, input.val[k], Text(k),
                GenerateTextEmbedding(IF k \in plan.zero THEN "fail" ELSE "ok",
                                      Text(k)))])

\* all_embeddings of run_setup.main / initialize_embeddings for a cleaned frame
AllEmbeddings(rows) ==
    MergeDicts(MergeDicts(
        BatchResult("customer", CreateCustomerProfiles(EmptyDict, rows)),
        BatchResult("product", AnalyzeProductCatalog(EmptyDict, rows))),
        BatchResult("territory", AnalyzeTerritories(EmptyDict, rows)))

\* the point of lines 68-77 for the n-th item of the dict: a fresh uuid4 as id,
\* the metadata also flattened into the payload
Point(embeddings, key, id) ==
    [id |-> id,
     vector |-> embeddings.val[key].embedding,
     payload |-> [key |-> key, text |-> embeddings.val[key].text,
                  metadata |-> embeddings.val[key].metadata,
                  type |-> embeddings.val[key].metadata.type]]

\* the uuid4 drawn for the n-th point of a call: one never drawn before
FreshId(used, n) == used + n

\* the list `points` of lines 64-78
PointsOf(embeddings, used) ==
    LET items == Items(embeddings) IN
    {Point(embeddings, items[n], FreshId(used, n)) : n \in 1..Len(items)}

\* client.upsert: a point replaces the stored point of the same id, any other
\* point is added
Upsert(stored, new) ==
    {p \in stored : \A q \in new : q.id # p.id} \cup new

\* Optional[float] = None: no minimum is given
None == -2

NoSearch == [kind |-> "none", enc |-> "none", min |-> None, limit |-> 0,
             results |-> <<>>]

\* the {} of get_collection_stats (line 260) has empty = TRUE
NoStats == [empty |-> TRUE, total_points |-> 0,
            type_counts |-> [customer |-> 0, product |-> 0, territory |-> 0]]

InitStorage ==
    /\ collection_exists = TRUE
    /\ points = {}
    /\ next_uuid = 0
    /\ store_return = "none"
    /\ stored_log = <<>>
    /\ store_calls = 0
    /\ db_sent = <<>>
    /\ db_outcome = "none"
    /\ search_return = NoSearch
    /\ stats_return = NoStats
    /\ other_requests = <<>>

\* a store_embeddings that upserts whatever it is given, an empty list included
StoreEmbeddingsWithoutEmptyCheck(embeddings, qdrant) ==
    /\ store_calls < MaxStores
    /\ storage_pc = "idle"
    /\ store_calls' = store_calls + 1
    /\ other_requests' = <<>>
    /\ IF qdrant = "ok" /\ collection_exists
       THEN /\ points' = Upsert(points, PointsOf(embeddings, next_uuid))
            /\ next_uuid' = next_uuid + Len(Items(embeddings))
            /\ stored_log' = Append(stored_log, embeddings)
            /\ store_return' = "True"
            /\ db_sent' = <<"upsert">>
            /\ db_outcome' = "returned"
            /\ UNCHANGED collection_exists
       ELSE /\ store_return' = "False"
            /\ db_sent' = <<"upsert">>
            /\ db_outcome' = "caught"
            /\ UNCHANGED <<collection_exists, points, next_uuid, stored_log>>
    /\ UNCHANGED <<search_return, stats_return>>
    /\ UNCHANGED <<appVars, procVars, genVars, agentVars>>

\* what store_embeddings does to the storage and the database; `qdrant` is
\* whether the database answers the upsert
Stored(embeddings, qdrant) ==
    /\ store_calls' = store_calls + 1
    /\ other_requests' = <<>>
    /\ IF Items(embeddings) = <<>>
       THEN /\ store_return' = "True"
            /\ db_sent' = <<>>
            /\ db_outcome' = "returned"
            /\ UNCHANGED <<collection_exists, points, next_uuid, stored_log>>
       ELSE IF qdrant = "ok" /\ collection_exists
       THEN /\ points' = Upsert(points, PointsOf(embeddings, next_uuid))
            /\ next_uuid' = next_uuid + Len(Items(embeddings))
            /\ stored_log' = Append(stored_log, embeddings)
            /\ store_return' = "True"
            /\ db_sent' = <<"upsert">>
            /\ db_outcome' = "returned"
            /\ UNCHANGED collection_exists
       ELSE /\ store_return' = "False"
            /\ db_sent' = <<"upsert">>
            /\ db_outcome' = "caught"
            /\ UNCHANGED <<collection_exists, points, next_uuid, stored_log>>
    /\ UNCHANGED <<search_return, stats_return>>

\* store_embeddings as a call of its own
StoreEmbeddings(embeddings, qdrant) ==
    /\ store_calls < MaxStores
    /\ storage_pc = "idle"
    /\ Stored(embeddings, qdrant)
    /\ UNCHANGED <<appVars, procVars, genVars, agentVars>>

\* the collection as the database holds it
Collection == [exists |-> collection_exists, points |-> points]

\* the collection after client.delete_collection
Dropped == [exists |-> FALSE, points |-> {}]

\* an _ensure_collection that creates the collection whether it exists or not
EnsuredCollectionRecreated(c) == [exists |-> TRUE, points |-> {}]

\* lines 33-50 of _ensure_collection on a collection c that no other client
\* touches meanwhile: created empty when absent, left as it is when present
EnsuredCollection(c) ==
    IF c.exists THEN c ELSE [exists |-> TRUE, points |-> {}]

\* the requests lines 33-47 send on such a collection
EnsureRequests(c) ==
    IF c.exists THEN <<"get_collections">>
    ELSE <<"get_collections", "create_collection">>

\* no storage call is in progress
NoLocals == [total_points |-> 0, type_counts |-> <<>>, held |-> {}]

\* _ensure_collection is run by clear_collection (line 266), not by a
\* construction QdrantStorage() (line 27)
InClear == storage_pc \in {"clear_list", "clear_create"}

\* a construction QdrantStorage() returns or raises in initialize_services:
\* after the storage of the routes (routes.py line 278) the agent is built
\* (line 282), after the storage of the agent (sales_agent.py line 23)
\* initialize_services returns True and lifespan yields; an exception makes
\* initialize_services return False and lifespan raise
StartupAfterStorage(raised) ==
    CASE startup = "routes_storage" -> IF raised THEN "raised" ELSE "agent_encoder"
      [] startup = "agent_storage" -> IF raised THEN "raised" ELSE "serving"
      [] OTHER -> startup

\* the same in main of run_setup.py (line 40): health_check comes next, and an
\* exception reaches the except clause of line 86
SetupAfterStorage(raised) ==
    IF setup_pc = "storage" THEN (IF raised THEN "returned_False" ELSE "health")
    ELSE setup_pc

\* get_collection_stats returns in main of run_setup.py (line 80): main returns
\* True whatever the statistics are
SetupAfterStats == IF setup_pc = "stats" THEN "returned_True" ELSE setup_pc

\* _ensure_collection ends, in a construction or in clear_collection: it
\* returns, or the exception of its request is raised again (line 54), which
\* clear_collection catches (lines 269-271)
EnsureEnds(raised) ==
    /\ storage_pc' = "idle"
    /\ IF InClear
       THEN /\ store_return' = IF raised THEN "False" ELSE "True"
            /\ db_outcome' = IF raised THEN "caught" ELSE "returned"
            /\ UNCHANGED <<startup, setup_pc>>
       ELSE /\ store_return' = IF raised THEN "raised" ELSE "none"
            /\ db_outcome' = IF raised THEN "raised" ELSE "returned"
            /\ startup' = StartupAfterStorage(raised)
            /\ setup_pc' = SetupAfterStorage(raised)

\* an _ensure_collection in clear_collection whose exception is not raised again
EnsureListSwallowed(qdrant) ==
    /\ storage_pc \in {"idle", "clear_list"}
    /\ db_sent' = IF InClear THEN Append(db_sent, "get_collections")
                  ELSE <<"get_collections">>
    /\ other_requests' = IF InClear THEN other_requests ELSE <<>>
    /\ IF qdrant # "ok"
       THEN /\ storage_pc' = "idle"
            /\ store_return' = IF InClear THEN "True" ELSE "raised"
            /\ db_outcome' = IF InClear THEN "caught" ELSE "raised"
            /\ startup' = IF InClear THEN startup ELSE StartupAfterStorage(TRUE)
            /\ setup_pc' = IF InClear THEN setup_pc ELSE SetupAfterStorage(TRUE)
       ELSE IF collection_exists
       THEN EnsureEnds(FALSE)
       ELSE /\ storage_pc' = IF InClear THEN "clear_create" ELSE "init_create"
            /\ db_outcome' = "pending"
            /\ UNCHANGED <<store_return, startup, setup_pc>>
    /\ UNCHANGED <<collection_exists, points, next_uuid, stored_log, store_calls,
                   search_return, stats_return>>
    /\ UNCHANGED <<storage_locals, threshold_strict, setup_locals,
                   peer_pc, peer_req, peer_result>>
    /\ UNCHANGED <<procVars, genVars, agentVars>>

\* _ensure_collection up to the answer of its first request (lines 33-39), in a
\* construction QdrantStorage() or in a clear_collection whose delete was
\* answered: get_collections fails and the exception is raised again, or the
\* collection is in the answer and the call returns, or it is not and
\* create_collection is sent next. `qdrant` is whether the database answers
EnsureList(qdrant) ==
    /\ storage_pc \in {"idle", "clear_list"}
    /\ db_sent' = IF InClear THEN Append(db_sent, "get_collections")
                  ELSE <<"get_collections">>
    /\ other_requests' = IF InClear THEN other_requests ELSE <<>>
    /\ IF qdrant # "ok"
       THEN EnsureEnds(TRUE)
       ELSE IF collection_exists
       THEN EnsureEnds(FALSE)
       ELSE /\ storage_pc' = IF InClear THEN "clear_create" ELSE "init_create"
            /\ db_outcome' = "pending"
            /\ UNCHANGED <<store_return, startup, setup_pc>>
    /\ UNCHANGED <<collection_exists, points, next_uuid, stored_log, store_calls,
                   search_return, stats_return>>
    /\ UNCHANGED <<storage_locals, threshold_strict, setup_locals,
                   peer_pc, peer_req, peer_result>>
    /\ UNCHANGED <<procVars, genVars, agentVars>>

\* the rest of _ensure_collection (lines 41-50): create_collection creates the
\* empty collection; it fails when the database does not answer, and when
\* another client has created the collection since the list was answered
EnsureCreate(qdrant) ==
    /\ storage_pc \in {"init_create", "clear_create"}
    /\ db_sent' = Append(db_sent, "create_collection")
    /\ IF qdrant = "ok" /\ ~collection_exists
       THEN /\ collection_exists' = EnsuredCollection(Collection).exists
            /\ points' = EnsuredCollection(Collection).points
            /\ EnsureEnds(FALSE)
       ELSE /\ EnsureEnds(TRUE)
            /\ UNCHANGED <<collection_exists, points>>
    /\ UNCHANGED <<next_uuid, stored_log, store_calls, search_return, stats_return>>
    /\ UNCHANGED <<storage_locals, threshold_strict, setup_locals, other_requests,
                   peer_pc, peer_req, peer_result>>
    /\ UNCHANGED <<procVars, genVars, agentVars>>

\* clear_collection up to the answer of its first request (line 265):
\* delete_collection drops the collection and _ensure_collection comes next, or
\* it fails and the call returns False
ClearDelete(qdrant) ==
    /\ storage_pc = "idle"
    /\ db_sent' = <<"delete_collection">>
    /\ other_requests' = <<>>
    /\ storage_locals' = [NoLocals EXCEPT !.held = points]
    /\ IF qdrant = "ok"
       THEN /\ collection_exists' = Dropped.exists
            /\ points' = Dropped.points
            /\ stored_log' = <<>>
            /\ storage_pc' = "clear_list"
            /\ db_outcome' = "pending"
            /\ UNCHANGED store_return
       ELSE /\ store_return' = "False"
            /\ db_outcome' = "caught"
            /\ UNCHANGED <<collection_exists, points, stored_log, storage_pc>>
    /\ UNCHANGED <<next_uuid, store_calls, search_return, stats_return>>
    /\ UNCHANGED <<startup, setup_pc, threshold_strict, setup_locals,
                   peer_pc, peer_req, peer_result>>
    /\ UNCHANGED <<procVars, genVars, agentVars>>

\* health_check (lines 273-289): one get_collections request, whose failure is
\* caught; in main of run_setup.py (line 41) the batches come next
HealthCheck(qdrant) ==
    /\ storage_pc = "idle"
    /\ db_sent' = <<"get_collections">>
    /\ other_requests' = <<>>
    /\ IF qdrant = "ok"
       THEN /\ store_return' = IF collection_exists THEN "healthy, collection exists"
                               ELSE "healthy, no collection"
            /\ db_outcome' = "returned"
       ELSE /\ store_return' = "unhealthy"
            /\ db_outcome' = "caught"
    /\ setup_pc' = IF setup_pc = "health" THEN "generator" ELSE setup_pc
    /\ UNCHANGED <<collection_exists, points, next_uuid, stored_log, store_calls,
                   search_return, stats_return>>
    /\ UNCHANGED <<startup, storage_pc, storage_locals, threshold_strict, setup_locals,
                   peer_pc, peer_req, peer_result>>
    /\ UNCHANGED <<procVars, genVars, agentVars>>

\* another client of the database (a QdrantStorage of another process) has its
\* create_collection answered
OtherCreates ==
    /\ Len(other_requests) < MaxOtherRequests
    /\ ~collection_exists
    /\ collection_exists' = TRUE
    /\ points' = {}
    /\ other_requests' = Append(other_requests, "create_collection")
    /\ UNCHANGED <<next_uuid, store_return, stored_log, store_calls, db_sent,
                   db_outcome, search_return, stats_return>>
    /\ UNCHANGED <<startup, setup_pc, storage_pc, storage_locals, threshold_strict,
                   setup_locals, peer_pc, peer_req, peer_result>>
    /\ UNCHANGED <<procVars, genVars, agentVars>>

\* another client has its delete_collection answered
OtherDeletes ==
    /\ Len(other_requests) < MaxOtherRequests
    /\ collection_exists' = Dropped.exists
    /\ points' = Dropped.points
    /\ stored_log' = <<>>
    /\ other_requests' = Append(other_requests, "delete_collection")
    /\ UNCHANGED <<next_uuid, store_return, store_calls, db_sent, db_outcome,
                   search_return, stats_return>>
    /\ UNCHANGED <<startup, setup_pc, storage_pc, storage_locals, threshold_strict,
                   setup_locals, peer_pc, peer_req, peer_result>>
    /\ UNCHANGED <<procVars, genVars, agentVars>>

\* another client has the upsert of its store_embeddings answered
OtherStores(embeddings) ==
    /\ Len(other_requests) < MaxOtherRequests
    /\ store_calls < MaxStores
    /\ collection_exists
    /\ Items(embeddings) # <<>>
    /\ store_calls' = store_calls + 1
    /\ points' = Upsert(points, PointsOf(embeddings, next_uuid))
    /\ next_uuid' = next_uuid + Len(Items(embeddings))
    /\ stored_log' = Append(stored_log, embeddings)
    /\ other_requests' = Append(other_requests, "upsert")
    /\ UNCHANGED <<collection_exists, store_return, db_sent, db_outcome,
                   search_return, stats_return>>
    /\ UNCHANGED <<startup, setup_pc, storage_pc, storage_locals, threshold_strict,
                   setup_locals, peer_pc, peer_req, peer_result>>
    /\ UNCHANGED <<procVars, genVars, agentVars>>

\* the similarity of two vectors: their dot product (the components of the
\* model's vectors are 0 or 1, so the products that are not 0 are counted)
Score(q, v) == Cardinality({i \in 1..EMBEDDING_DIMENSION : q[i] * v[i] # 0})

\* client.search: the scored points, best score first, at most `limit`
TopHits(hits, limit) ==
    LET Before(h, o) == h.score > o.score \/ (h.score = o.score /\ h.id < o.id)
        Rank(h) == Cardinality({o \in hits : Before(o, h)}) + 1
        n == IF Cardinality(hits) < limit THEN Cardinality(hits) ELSE limit
    IN  [i \in 1..n |-> CHOOSE h \in hits : Rank(h) = i]

\* score_threshold: float = 0.0 (line 103), sent with every search (line 126)
SCORE_THRESHOLD == 0

\* the server's test of a score against the threshold of the request: whether a
\* score equal to the threshold passes is the server's choice
PassesThreshold(score, score_threshold) ==
    IF threshold_strict THEN score > score_threshold ELSE score >= score_threshold

\* the scored points of a set of points that pass the threshold
Hits(q, candidates, score_threshold) ==
    {h \in {[id |-> p.id, score |-> Score(q, p.vector), payload |-> p.payload] :
                p \in candidates} : PassesThreshold(h.score, score_threshold)}

\* a search_similar that sends no filter
SearchSimilarUnfiltered(q, limit, type, qdrant) ==
    IF qdrant = "ok" /\ collection_exists
    THEN TopHits(Hits(q, points, SCORE_THRESHOLD), limit)
    ELSE <<>>

\* search_similar with the filter {'type': type} and the default threshold; []
\* when the search raises
SearchSimilar(q, limit, type, qdrant) ==
    IF qdrant = "ok" /\ collection_exists
    THEN TopHits(Hits(q, {o \in points : o.payload.type = type}, SCORE_THRESHOLD),
                 limit)
    ELSE <<>>

\* a value of the payload at least min (a missing amount compares False)
AtLeast(value, min) == value # NaN /\ value >= min

\* a float of the payload at least min (NaN compares False)
FloatAtLeast(value, min) == value.den > 0 /\ value.num >= min * value.den

\* lines 167-171, 198-202, 222-226: the results whose flattened metadata value
\* reaches the minimum, in the order of `results`
MinFilter(results, kind, min) ==
    IF min = None THEN results
    ELSE SelectSeq(results, LAMBDA r :
            CASE kind = "customer" -> AtLeast(r.payload.metadata.total_sales, min)
              [] kind = "product" ->
                    FloatAtLeast(r.payload.metadata.performance_score, min)
              [] kind = "territory" ->
                    FloatAtLeast(r.payload.metadata.market_share, min))

\* a search_customers that sends the minimum to the database with the filter
SearchCustomersFilteredInStore(q, min_sales, limit, qdrant) ==
    IF min_sales = None THEN SearchSimilar(q, limit, "customer", qdrant)
    ELSE IF qdrant = "ok" /\ collection_exists
    THEN TopHits(Hits(q, {o \in points :
                                /\ o.payload.type = "customer"
                                /\ AtLeast(o.payload.metadata.total_sales, min_sales)},
                      SCORE_THRESHOLD),
                 limit)
    ELSE <<>>

\* search_customers without territory and customer_status
SearchCustomers(q, min_sales, limit, qdrant) ==
    MinFilter(SearchSimilar(q, limit, "customer", qdrant), "customer", min_sales)

\* search_products without product_line and deal_size
SearchProducts(q, min_performance, limit, qdrant) ==
    MinFilter(SearchSimilar(q, limit, "product", qdrant), "product", min_performance)

\* search_territories
SearchTerritories(q, min_market_share, limit, qdrant) ==
    MinFilter(SearchSimilar(q, limit, "territory", qdrant), "territory",
              min_market_share)

CategorySearch(kind, q, min, limit, qdrant) ==
    CASE kind = "customer" -> SearchCustomers(q, min, limit, qdrant)
      [] kind = "product" -> SearchProducts(q, min, limit, qdrant)
      [] kind = "territory" -> SearchTerritories(q, min, limit, qdrant)

\* the user's query as a text
QueryText == [template |-> "query", key |-> "user_query", enriched |-> FALSE]

\* the embedding of a query: of a plain query text, of one worded like an
\* enriched description, or the zero vector of a failed embedding
QueryVector(enc) ==
    CASE enc = "ok" -> GenerateTextEmbedding("ok", QueryText)
      [] enc = "rich" -> GenerateTextEmbedding("ok", Enriched(QueryText))
      [] enc = "fail" -> GenerateTextEmbedding("fail", QueryText)

\* a caller runs one category search (one request to the database, answered
\* or not)
Search(kind, enc, min, limit, qdrant) ==
    /\ search_return' = [kind |-> kind, enc |-> enc, min |-> min, limit |-> limit,
                         results |-> CategorySearch(kind, QueryVector(enc), min,
                                                    limit, qdrant)]
    /\ storage_pc = "idle"
    /\ db_sent' = <<"search">>
    /\ db_outcome' = IF qdrant = "ok" /\ collection_exists THEN "returned" ELSE "caught"
    /\ other_requests' = <<>>
    /\ UNCHANGED <<collection_exists, points, next_uuid, store_return, stored_log,
                   store_calls, stats_return>>
    /\ UNCHANGED <<appVars, procVars, genVars, agentVars>>

\* client.count with the filter {'type': doc_type}
TypeCount(doc_type) == Cardinality({p \in points : p.payload.type = doc_type})

\* for doc_type in ['customer', 'product', 'territory'] (line 237)
DocTypes == <<"customer", "product", "territory">>

\* the dict of lines 251-256
Stats(total_points, type_counts) ==
    [empty |-> FALSE, total_points |-> total_points,
     type_counts |-> [customer |-> type_counts[1], product |-> type_counts[2],
                      territory |-> type_counts[3]]]

\* get_collection_stats ends: with its dict, or with {} when a request failed
\* (lines 258-260)
StatsEnds(result) ==
    /\ stats_return' = result
    /\ db_outcome' = IF result = NoStats THEN "caught" ELSE "returned"
    /\ storage_pc' = "idle"
    /\ storage_locals' = NoLocals
    /\ setup_pc' = SetupAfterStats

\* a get_collection_stats without its except clause
StatsInfoUncaught(qdrant) ==
    /\ storage_pc = "idle"
    /\ db_sent' = <<"get_collection">>
    /\ other_requests' = <<>>
    /\ IF qdrant = "ok" /\ collection_exists
       THEN /\ storage_locals' = [NoLocals EXCEPT
                                      !.total_points = Cardinality(points)]
            /\ storage_pc' = "stats_count"
            /\ db_outcome' = "pending"
            /\ UNCHANGED <<stats_return, setup_pc>>
       ELSE /\ db_outcome' = "raised"
            /\ UNCHANGED <<stats_return, storage_pc, storage_locals, setup_pc>>
    /\ UNCHANGED <<collection_exists, points, next_uuid, store_return, stored_log,
                   store_calls, search_return>>
    /\ UNCHANGED <<startup, threshold_strict, setup_locals,
                   peer_pc, peer_req, peer_result>>
    /\ UNCHANGED <<procVars, genVars, agentVars>>

\* get_collection_stats up to the answer of its first request (line 233):
\* get_collection gives info.points_count, or fails (also when the collection
\* is absent) and {} is returned
StatsInfo(qdrant) ==
    /\ storage_pc = "idle"
    /\ db_sent' = <<"get_collection">>
    /\ other_requests' = <<>>
    /\ IF qdrant = "ok" /\ collection_exists
       THEN /\ storage_locals' = [NoLocals EXCEPT
                                      !.total_points = Cardinality(points)]
            /\ storage_pc' = "stats_count"
            /\ db_outcome' = "pending"
            /\ UNCHANGED <<stats_return, setup_pc>>
       ELSE StatsEnds(NoStats)
    /\ UNCHANGED <<collection_exists, points, next_uuid, store_return, stored_log,
                   store_calls, search_return>>
    /\ UNCHANGED <<startup, threshold_strict, setup_locals,
                   peer_pc, peer_req, peer_result>>
    /\ UNCHANGED <<procVars, genVars, agentVars>>

\* the next count request of the loop of lines 237-249: its answer is kept in
\* type_counts, and after the third the dict is returned with the
\* points_count read at the start; a failed request ends the call with {}
StatsCount(qdrant) ==
    /\ storage_pc = "stats_count"
    /\ db_sent' = Append(db_sent, "count")
    /\ IF qdrant = "ok" /\ collection_exists
       THEN LET doc_type == DocTypes[Len(storage_locals.type_counts) + 1]
                type_counts == Append(storage_locals.type_counts, TypeCount(doc_type))
            IN  IF Len(type_counts) = Len(DocTypes)
                THEN StatsEnds(Stats(storage_locals.total_points, type_counts))
                ELSE /\ storage_locals' = [storage_locals EXCEPT
                                              !.type_counts = type_counts]
                     /\ UNCHANGED <<stats_return, db_outcome, storage_pc, setup_pc>>
       ELSE StatsEnds(NoStats)
    /\ UNCHANGED <<collection_exists, points, next_uuid, store_return, stored_log,
                   store_calls, search_return>>
    /\ UNCHANGED <<startup, threshold_strict, setup_locals, other_requests,
                   peer_pc, peer_req, peer_result>>
    /\ UNCHANGED <<procVars, genVars, agentVars>>

----------------------------------------------------------------------------
(* SmartSalesAgent *)

\* f"Error generating response: {str(e)}"
ErrorResponse == "Error generating response: <exception>"

\* response.choices[0].message.content.strip()
Answer == "<answer of the generation service>"

\* "No relevant context found."
NoContext == "No relevant context found."

\* the try/except of _query_groq (lines 33-52) for one outcome of the request
QueryBody(outcome) ==
    IF outcome = "ok"
    THEN [raised |-> FALSE, value |-> Answer]
    ELSE [raised |-> FALSE, value |-> ErrorResponse]

\* a sort by descending score that puts the later of two equal scores first
RECURSIVE SortByScoreLaterFirst(_)
SortByScoreLaterFirst(s) ==
    IF s = <<>> THEN <<>>
    ELSE LET rest == SortByScoreLaterFirst(Tail(s))
             before == SelectSeq(rest, LAMBDA r : r.score >= s[1].score)
             after == SelectSeq(rest, LAMBDA r : r.score < s[1].score)
         IN  before \o <<s[1]>> \o after

\* list.sort(key=score, reverse=True): stable, best score first
RECURSIVE SortByScore(_)
SortByScore(s) ==
    IF s = <<>> THEN <<>>
    ELSE LET rest == SortByScore(Tail(s))
             before == SelectSeq(rest, LAMBDA r : r.score > s[1].score)
             after == SelectSeq(rest, LAMBDA r : r.score <= s[1].score)
         IN  before \o <<s[1]>> \o after

\* lines 61-83 of retrieve_context: the category searches a scope issues, in
\* the order of the code, each with its cap
SearchPlan(context_type) ==
    (IF context_type \in {"all", "customer"}
     THEN <<[kind |-> "customer", limit |-> 3]>> ELSE <<>>)
    \o (IF context_type \in {"all", "product"}
        THEN <<[kind |-> "product", limit |-> 3]>> ELSE <<>>)
    \o (IF context_type \in {"all", "territory"}
        THEN <<[kind |-> "territory", limit |-> 2]>> ELSE <<>>)

\* a format_context that joins the items only: the empty string for no result
FormatContextJoinOnly(context_results) ==
    [i \in 1..Len(context_results) |-> context_results[i].payload.key]

\* format_context: the marker for no result, else one item per result
FormatContext(context_results) ==
    IF context_results = <<>> THEN <<NoContext>>
    ELSE [i \in 1..Len(context_results) |-> context_results[i].payload.key]

\* the characters of the keys and names of the model
Chars(str) ==
    CASE str = "Acme" -> <<"A", "c", "m", "e">>
      [] str = "Bolt" -> <<"B", "o", "l", "t">>
      [] str = "Cody" -> <<"C", "o", "d", "y">>
      [] str = "Dana" -> <<"D", "a", "n", "a">>
      [] str = "Cars_S10" -> <<"C", "a", "r", "s", "_", "S", "1", "0">>
      [] str = "Cars_S18" -> <<"C", "a", "r", "s", "_", "S", "1", "8">>
      [] str = "EMEA" -> <<"E", "M", "E", "A">>
      [] str = "acme" -> <<"a", "c", "m", "e">>
      [] str = "ME" -> <<"M", "E">>
      [] str = "Zed" -> <<"Z", "e", "d">>
      [] OTHER -> <<>>

\* str.lower() on one character
LowerChar(ch) ==
    CASE ch = "A" -> "a" [] ch = "B" -> "b" [] ch = "C" -> "c" [] ch = "D" -> "d"
      [] ch = "E" -> "e"
      [] ch = "M" -> "m" [] ch = "S" -> "s" [] ch = "Z" -> "z" [] OTHER -> ch

Lower(chars) == [i \in 1..Len(chars) |-> LowerChar(chars[i])]

\* a in b, for strings given by their characters
IsSubstring(a, b) ==
    \E i \in 0..(Len(b) - Len(a)) : SubSeq(b, i + 1, i + Len(a)) = a

\* name.lower() in r['payload'].get('key', '').lower()  (lines 173, 254)
NameMatches(name, r) == IsSubstring(Lower(Chars(name)), Lower(Chars(r.payload.key)))

\* the results kept for the entity asked for (lines 171-174, 252-255); the
\* operations that analyse no entity keep them all
EntityContext(op, name, context_results) ==
    IF op \in {"analyze_customer", "analyze_territory"}
    THEN SelectSeq(context_results, LAMBDA r : NameMatches(name, r))
    ELSE context_results

\* 'error': f'No se encontró información del cliente {customer_name}'
NotFound == "No se encontro informacion del cliente <customer_name>"

\* a request: the operation and its arguments, the steps taken so far, the
\* searches still to issue and those issued, the results as the searches emitted
\* them, the sorted results, the results kept for the prompt, the prompt, and the
\* state of the generation call
NoRequest == [op |-> "none", context_type |-> "none", name |-> "none",
              steps |-> <<>>, query |-> "none", todo |-> <<>>, searches |-> <<>>,
              emitted |-> <<>>, context_results |-> <<>>, context |-> <<>>,
              prompt |-> <<>>, attempt_number |-> 0, failed |-> FALSE]

\* the dict returned: 'response' / 'customer_analysis' / 'territory_analysis' or
\* 'error', 'context_used', and 'customer_data' / 'territory_data' (<<>> is {})
NoResult == [status |-> "none", response |-> "none", context_used |-> 0,
             data |-> <<>>]

InitAgent ==
    /\ agent_pc = "idle"
    /\ agent_req = NoRequest
    /\ agent_result = NoResult

\* main.py is imported and lifespan has not run, run_setup.py has not run; no
\* second request and no storage call is in progress; the database server is of
\* one kind or the other
InitApp ==
    /\ startup = "not_started"
    /\ setup_pc = "not_started"
    /\ setup_locals = NoEmbeddings
    /\ storage_pc = "idle"
    /\ storage_locals = NoLocals
    /\ threshold_strict \in BOOLEAN
    /\ peer_pc = "idle"
    /\ peer_req = NoRequest
    /\ peer_result = NoResult

\* an operation of the agent enters retrieve_context: the query is embedded
\* (line 57) and the searches of the scope are planned
BeginRetrieve(op, context_type, name, enc) ==
    /\ agent_pc \in {"idle", "done", "raised"}
    /\ agent_req' = [NoRequest EXCEPT
                        !.op = op, !.context_type = context_type, !.name = name,
                        !.steps = <<"embed">>, !.query = enc,
                        !.todo = SearchPlan(context_type)]
    /\ agent_pc' = "retrieving"
    /\ agent_result' = NoResult
    /\ UNCHANGED <<appVars, procVars, genVars, storeVars>>

\* generate_sales_response(user_query, context_type)
GenerateSalesResponse(context_type, enc) ==
    BeginRetrieve("generate_sales_response", context_type, "none", enc)

\* analyze_customer(customer_name)
AnalyzeCustomer(customer_name, enc) ==
    BeginRetrieve("analyze_customer", "customer", customer_name, enc)

\* analyze_territory(territory_name)
AnalyzeTerritory(territory_name, enc) ==
    BeginRetrieve("analyze_territory", "territory", territory_name, enc)

\* recommend_products(customer_criteria): the products are searched
RecommendProducts(enc) ==
    BeginRetrieve("recommend_products", "product", "none", enc)

\* generate_sales_pitch(customer_name, product_focus)
GenerateSalesPitch(enc) ==
    BeginRetrieve("generate_sales_pitch", "all", "none", enc)

\* get_sales_insights(query)
GetSalesInsights(enc) ==
    BeginRetrieve("get_sales_insights", "all", "none", enc)

\* a retrieve_context that embeds the query again before each category search
SearchStepEmbedsAgain(qdrant) ==
    /\ agent_pc = "retrieving"
    /\ agent_req.todo # <<>>
    /\ LET s == Head(agent_req.todo)
           found == CategorySearch(s.kind, QueryVector(agent_req.query), None,
                                   s.limit, qdrant)
       IN  agent_req' = [agent_req EXCEPT
                            !.todo = Tail(@),
                            !.steps = @ \o <<"embed", "search">>,
                            !.searches = Append(@, [kind |-> s.kind,
                                                    limit |-> s.limit,
                                                    results |-> found,
                                                    collection |-> collection_exists]),
                            !.emitted = @ \o found]
    /\ UNCHANGED <<agent_pc, agent_result>>
    /\ UNCHANGED <<appVars, procVars, genVars, storeVars>>

\* a retrieve_context whose search lets the exception of the database through
SearchStepUncaught(qdrant) ==
    /\ agent_pc = "retrieving"
    /\ agent_req.todo # <<>>
    /\ IF qdrant = "ok" /\ collection_exists
       THEN LET s == Head(agent_req.todo)
                found == CategorySearch(s.kind, QueryVector(agent_req.query), None,
                                        s.limit, qdrant)
            IN  /\ agent_req' = [agent_req EXCEPT
                                    !.todo = Tail(@),
                                    !.steps = Append(@, "search"),
                                    !.searches = Append(@, [kind |-> s.kind,
                                                            limit |-> s.limit,
                                                            results |-> found,
                                                            collection |-> collection_exists]),
                                    !.emitted = @ \o found]
                /\ UNCHANGED agent_pc
       ELSE /\ agent_req' = [agent_req EXCEPT !.steps = Append(@, "search")]
            /\ agent_pc' = "raised"
    /\ UNCHANGED agent_result
    /\ UNCHANGED <<appVars, procVars, genVars, storeVars>>

\* a retrieve_context that keeps context_results on the agent, where the
\* request of the other thread extends it too
SearchStepOnSharedResults(qdrant) ==
    /\ agent_pc = "retrieving"
    /\ agent_req.todo # <<>>
    /\ LET s == Head(agent_req.todo)
           found == CategorySearch(s.kind, QueryVector(agent_req.query), None,
                                   s.limit, qdrant)
       IN  /\ agent_req' = [agent_req EXCEPT
                                !.todo = Tail(@),
                                !.steps = Append(@, "search"),
                                !.searches = Append(@, [kind |-> s.kind,
                                                        limit |-> s.limit,
                                                        results |-> found,
                                                        collection |-> collection_exists]),
                                !.emitted = @ \o found]
           /\ peer_req' = [peer_req EXCEPT !.emitted = @ \o found]
    /\ UNCHANGED <<agent_pc, agent_result>>
    /\ UNCHANGED <<startup, setup_pc, storage_pc, storage_locals, threshold_strict,
                   setup_locals, peer_pc, peer_result>>
    /\ UNCHANGED <<procVars, genVars, storeVars>>

\* the next category search of retrieve_context: one request to the database,
\* answered or not, and context_results.extend(...); the search is recorded with
\* its results and with whether the collection existed when it was issued
SearchStep(qdrant) ==
    /\ agent_pc = "retrieving"
    /\ agent_req.todo # <<>>
    /\ LET s == Head(agent_req.todo)
           found == CategorySearch(s.kind, QueryVector(agent_req.query), None,
                                   s.limit, qdrant)
       IN  agent_req' = [agent_req EXCEPT
                            !.todo = Tail(@),
                            !.steps = Append(@, "search"),
                            !.searches = Append(@, [kind |-> s.kind,
                                                    limit |-> s.limit,
                                                    results |-> found,
                                                    collection |-> collection_exists]),
                            !.emitted = @ \o found]
    /\ UNCHANGED <<agent_pc, agent_result>>
    /\ UNCHANGED <<appVars, procVars, genVars, storeVars>>

\* a MergeContext without the not-found return of analyze_customer
MergeContextAlwaysGenerates ==
    /\ agent_pc = "retrieving"
    /\ agent_req.todo = <<>>
    /\ LET context_results == SortByScore(agent_req.emitted)
           context == EntityContext(agent_req.op, agent_req.name, context_results)
       IN  agent_req' = [agent_req EXCEPT
                            !.steps = @ \o <<"sort", "format">>,
                            !.context_results = context_results,
                            !.context = context,
                            !.prompt = FormatContext(context),
                            !.attempt_number = 1]
    /\ agent_pc' = "generating"
    /\ UNCHANGED agent_result
    /\ UNCHANGED <<appVars, procVars, genVars, storeVars>>

\* the searches are over: the results are sorted (line 86) and returned, the
\* operation keeps those of its entity, and either returns the not-found result
\* (analyze_customer, lines 176-184) or formats the prompt and goes on to the
\* generation call
MergeContext ==
    /\ agent_pc = "retrieving"
    /\ agent_req.todo = <<>>
    /\ LET context_results == SortByScore(agent_req.emitted)
           context == EntityContext(agent_req.op, agent_req.name, context_results)
       IN  IF agent_req.op = "analyze_customer" /\ context = <<>>
           THEN /\ agent_req' = [agent_req EXCEPT
                                    !.steps = Append(@, "sort"),
                                    !.context_results = context_results,
                                    !.context = context]
                /\ agent_pc' = "done"
                /\ agent_result' = [status |-> "not_found", response |-> NotFound,
                                    context_used |-> 0, data |-> <<>>]
           ELSE /\ agent_req' = [agent_req EXCEPT
                                    !.steps = @ \o <<"sort", "format">>,
                                    !.context_results = context_results,
                                    !.context = context,
                                    !.prompt = FormatContext(context),
                                    !.attempt_number = 1]
                /\ agent_pc' = "generating"
                /\ UNCHANGED agent_result
    /\ UNCHANGED <<appVars, procVars, genVars, storeVars>>

\* the request of _query_groq ends with `outcome`; the retry wrapper decides; the
\* value returned becomes the 'response' of the result (lines 156-163, 205-211,
\* 276-282), or its 'recommendations', 'sales_pitch' or 'insights' (lines
\* 241-245, 312-316, 343-347)
QueryGroq(outcome) ==
    /\ agent_pc = "generating"
    /\ LET body == QueryBody(outcome) IN
       IF RetryAgain(body.raised, agent_req.attempt_number)
       THEN /\ agent_req' = [agent_req EXCEPT !.attempt_number = @ + 1,
                                               !.steps = Append(@, "generate")]
            /\ UNCHANGED <<agent_pc, agent_result>>
       ELSE IF body.raised
       THEN /\ agent_pc' = "raised"
            /\ agent_req' = [agent_req EXCEPT !.failed = TRUE,
                                               !.steps = Append(@, "generate")]
            /\ UNCHANGED agent_result
       ELSE /\ agent_pc' = "done"
            /\ agent_req' = [agent_req EXCEPT !.failed = (outcome # "ok"),
                                               !.steps = Append(@, "generate")]
            /\ agent_result' =
                    [status |-> "ok", response |-> body.value,
                     context_used |-> Len(agent_req.context),
                     data |-> IF agent_req.op \in {"analyze_customer",
                                                   "analyze_territory"}
                                 /\ agent_req.context # <<>>
                              THEN <<agent_req.context[1].payload>>
                              ELSE <<>>]
    /\ UNCHANGED <<appVars, procVars, genVars, storeVars>>

\* two requests in progress on one agent: the thread of the request that was
\* running is suspended between two of its calls and the thread of the other
\* request runs. The state of a request lives in the locals of its call
\* (context_results, formatted_context, response), so it goes with its thread
Switch ==
    /\ agent_pc' = peer_pc
    /\ agent_req' = peer_req
    /\ agent_result' = peer_result
    /\ peer_pc' = agent_pc
    /\ peer_req' = agent_req
    /\ peer_result' = agent_result
    /\ UNCHANGED <<startup, setup_pc, setup_locals, storage_pc, storage_locals,
                   threshold_strict>>
    /\ UNCHANGED <<procVars, genVars, storeVars>>

----------------------------------------------------------------------------
(* The application: lifespan (main.py) and initialize_services (routes.py) *)

\* the file at settings.DATA_PATH when the application starts: absent, present
\* but such that every read_csv of load_data raises, or a csv with its rows
DataFiles ==
    {[state |-> "missing", rows |-> <<>>], [state |-> "unloadable", rows |-> <<>>]}
        \cup {[state |-> "csv", rows |-> source] : source \in [1..1 -> RawRows]}

\* settings.validate(): the errors it lists
Validate(file) ==
    (IF groq_api_key = "" THEN {"GROQ_API_KEY is required"} ELSE {})
        \cup (IF file.state = "missing" THEN {"Data file not found"} ELSE {})

\* lifespan up to the first request to the database: the configuration is
\* validated and lifespan raises on its errors; then initialize_services builds
\* the processor and runs process_all on it (a load error is only logged, an
\* exception makes initialize_services return False and lifespan raise), and
\* QdrantStorage() comes next (routes.py line 278)
Lifespan(file) ==
    /\ startup = "not_started"
    /\ IF Validate(file) # {}
       THEN /\ startup' = "raised"
            /\ UNCHANGED procVars
       ELSE /\ IF file.state = "unloadable" THEN LoadFailed
                                             ELSE Processed(file.rows)
            /\ startup' = IF proc_result' = "raised" THEN "raised"
                           ELSE "routes_storage"
    /\ UNCHANGED <<setup_pc, storage_pc, storage_locals, threshold_strict, setup_locals,
                   peer_pc, peer_req, peer_result>>
    /\ UNCHANGED <<genVars, storeVars, agentVars>>

\* SmartSalesAgent() up to its QdrantStorage() (sales_agent.py lines 21-22):
\* EmbeddingGenerator() loads the sentence encoder, or the load raises and
\* initialize_services returns False
SmartSalesAgentInit(encoder) ==
    /\ startup = "agent_encoder"
    /\ startup' = IF encoder = "ok" THEN "agent_storage" ELSE "raised"
    /\ UNCHANGED <<setup_pc, storage_pc, storage_locals, threshold_strict, setup_locals,
                   peer_pc, peer_req, peer_result>>
    /\ UNCHANGED <<procVars, genVars, storeVars, agentVars>>

\* a construction QdrantStorage() of initialize_services is in progress or due
ConstructingStorage == startup \in {"routes_storage", "agent_storage"}

\* the application accepts requests once lifespan has yielded
Serving == startup = "serving"

----------------------------------------------------------------------------
(* The setup run: main (run_setup.py) *)

\* main up to its first request to the database (lines 27-36): it returns False
\* on errors of the configuration; process_all runs, its load error is only
\* logged and its exception reaches the except clause of line 86; QdrantStorage()
\* comes next (line 40)
Main(file) ==
    /\ setup_pc = "not_started"
    /\ IF Validate(file) # {}
       THEN /\ setup_pc' = "returned_False"
            /\ UNCHANGED procVars
       ELSE /\ IF file.state = "unloadable" THEN LoadFailed
                                             ELSE Processed(file.rows)
            /\ setup_pc' = IF proc_result' = "raised" THEN "returned_False"
                            ELSE "storage"
    /\ UNCHANGED <<startup, storage_pc, storage_locals, threshold_strict, setup_locals,
                   peer_pc, peer_req, peer_result>>
    /\ UNCHANGED <<genVars, storeVars, agentVars>>

\* EmbeddingGenerator() (line 46): the sentence encoder loads and the customer
\* batch is due, or the load raises and main returns False (line 86)
MainGenerator(encoder) ==
    /\ setup_pc = "generator"
    /\ setup_pc' = IF encoder = "ok" THEN "customers" ELSE "returned_False"
    /\ UNCHANGED <<startup, setup_locals, storage_pc, storage_locals,
                   threshold_strict, peer_pc, peer_req, peer_result>>
    /\ UNCHANGED <<procVars, genVars, storeVars, agentVars>>

\* main awaits its next batch on the aggregates of the processor, whatever
\* process_all returned (lines 50-62): the coroutine starts
MainBatch(kind) ==
    /\ InBatches
    /\ kind = CASE setup_pc = "customers" -> "customer"
                 [] setup_pc = "products" -> "product"
                 [] setup_pc = "territories" -> "territory"
    /\ gen_pc \in {"idle", "returned"}
    /\ BatchStarted(kind, BatchInput(kind))
    /\ UNCHANGED <<appVars, procVars, storeVars, agentVars>>

\* all_embeddings (run_setup.py lines 66-70, main.py lines 87-91)
PipelineEmbeddings ==
    MergeDicts(MergeDicts(setup_locals.customer, setup_locals.product),
               setup_locals.territory)

\* main from the merge to the answer of the upsert (lines 66-77):
\* store_embeddings is called on the merged dict and main returns False when it
\* returns False; get_collection_stats comes next (line 80)
MainStore(qdrant) ==
    /\ setup_pc = "store"
    /\ storage_pc = "idle"
    /\ Stored(PipelineEmbeddings, qdrant)
    /\ setup_pc' = IF store_return' = "True" THEN "stats" ELSE "returned_False"
    /\ UNCHANGED <<startup, setup_locals, storage_pc, storage_locals,
                   threshold_strict, peer_pc, peer_req, peer_result>>
    /\ UNCHANGED <<procVars, genVars, agentVars>>

----------------------------------------------------------------------------
(* Specifications *)

\* the aggregation engine: the first process_all of a processor, on sources of up
\* to MaxRows rows
InitProc ==
    InitProcessor /\ InitGenerator /\ groq_api_key # "" /\ InitStorage /\ InitAgent /\ InitApp

NextProcessor ==
    \/ proc_runs = 0 /\ ProcessAllLoadError
    \/ \E source \in Sources : proc_runs = 0 /\ ProcessAll(source)

SpecProcessor == InitProc /\ [][NextProcessor]_vars

\* process_all called up to MaxProcRuns times on one processor, the file at
\* data_path being replaced between the calls: sources of one row, and a file
\* that does not load
ReloadSources == [1..1 -> {r \in RawRows : r.DEALSIZE = "Small"}]

NextReload ==
    \/ ProcessAllLoadError
    \/ \E source \in ReloadSources : ProcessAll(source)

SpecReload == InitProc /\ [][NextReload]_vars

\* a database that holds the collection, empty, or not
InitDatabase ==
    /\ collection_exists \in BOOLEAN
    /\ points = {}
    /\ next_uuid = 0
    /\ store_return = "none"
    /\ stored_log = <<>>
    /\ store_calls = 0
    /\ db_sent = <<>>
    /\ db_outcome = "none"
    /\ search_return = NoSearch
    /\ stats_return = NoStats
    /\ other_requests = <<>>

\* the application starting, then serving requests: the credential is set or
\* not, the collection is in the database or not, and another client creates or
\* deletes the collection meanwhile
InitStartup ==
    /\ InitProcessor /\ InitGenerator /\ InitAgent /\ InitApp
    /\ InitDatabase

NextStartup ==
    \/ \E file \in DataFiles : Lifespan(file)
    \/ \E qdrant \in {"ok", "down"} : ConstructingStorage /\ EnsureList(qdrant)
    \/ \E qdrant \in {"ok", "down"} : ConstructingStorage /\ EnsureCreate(qdrant)
    \/ \E encoder \in {"ok", "fail"} : SmartSalesAgentInit(encoder)
    \/ ~Serving /\ OtherCreates
    \/ ~Serving /\ OtherDeletes
    \/ Serving /\ GenerateSalesResponse("all", "ok")
    \/ Serving /\ SearchStep("ok")
    \/ Serving /\ MergeContext
    \/ Serving /\ QueryGroq("ok")

SpecStartup == InitStartup /\ [][NextStartup]_vars

\* the sources of the generator runs: every cell parses, the deal size of a row
\* may be missing
GenRows == {r \in RawRows : r.ORDERDATE # "bad" /\ r.SALES = "100"
                            /\ r.PRODUCTCODE = "S10" /\ r.TERRITORY = "EMEA"}

GenSources == UNION {[1..n -> GenRows] : n \in 1..MaxRows}

\* the processor after a process_all that returned its summary
InitProcessed ==
    \E source \in GenSources :
        LET rows == CleanData(source) IN
        /\ ~ProductCatalogRaises(rows)
        /\ df = [is_none |-> FALSE, rows |-> rows, cleaned |-> TRUE]
        /\ customer_profiles = CreateCustomerProfiles(EmptyDict, rows)
        /\ product_catalog = AnalyzeProductCatalog(EmptyDict, rows)
        /\ territory_analysis = AnalyzeTerritories(EmptyDict, rows)
        /\ proc_result = "summary"
        /\ proc_runs = 1

\* the dicts the pipeline hands to store_embeddings
StoreInputs ==
    {EmptyDict} \cup
    {AllEmbeddings(CleanData(source)) :
        source \in {g \in GenSources : \A i \in 1..Len(g) : g[i].DEALSIZE # NaNStr}}

\* the collection after one pipeline run on the processor's frame: a run whose
\* customer batch raises leaves main by its except clause (run_setup.py line 86)
\* before store_embeddings is called, so it stores nothing and makes no call
InitStored ==
    LET raises == \E c \in Keys(customer_profiles) :
                      CreateCustomerTextRaises(customer_profiles.val[c])
        embeddings == IF raises THEN EmptyDict ELSE AllEmbeddings(df.rows)
    IN  /\ collection_exists = TRUE
        /\ points = PointsOf(embeddings, 0)
        /\ next_uuid = Len(Items(embeddings))
        /\ store_return = "none"
        /\ stored_log = IF Items(embeddings) = <<>> THEN <<>> ELSE <<embeddings>>
        /\ store_calls = IF raises THEN 0 ELSE 1
        /\ db_sent = <<>>
        /\ db_outcome = "none"
        /\ search_return = NoSearch
        /\ stats_return = NoStats
        /\ other_requests = <<>>

\* the vector store: pipeline runs, rebuilds and restarts on one collection
InitStore ==
    InitProcessor /\ InitGenerator /\ groq_api_key # "" /\ InitStorage /\ InitAgent /\ InitApp

NextStore ==
    \/ \E embeddings \in StoreInputs, qdrant \in {"ok", "down"} :
            StoreEmbeddings(embeddings, qdrant)
    \/ \E qdrant \in {"ok", "down"} : ClearDelete(qdrant)
    \/ \E qdrant \in {"ok", "down"} : EnsureList(qdrant)
    \/ \E qdrant \in {"ok", "down"} : EnsureCreate(qdrant)

SpecStore == InitStore /\ [][NextStore]_vars

\* a row of a source file
Row(customer, code, territory, sales) ==
    [ORDERNUMBER |-> 10100, ORDERDATE |-> "2003-01-06", CUSTOMERNAME |-> customer,
     PRODUCTLINE |-> "Cars", PRODUCTCODE |-> code, TERRITORY |-> territory,
     SALES |-> sales, QUANTITYORDERED |-> 30, DEALSIZE |-> "Small",
     STATUS |-> "Shipped"]

\* all_embeddings of a pipeline run on a source, under a plan
AllEmbeddingsWith(source, plan) ==
    LET rows == CleanData(source) IN
    MergeDicts(MergeDicts(
        BatchResultWith("customer", CreateCustomerProfiles(EmptyDict, rows), plan),
        BatchResultWith("product", AnalyzeProductCatalog(EmptyDict, rows), plan)),
        BatchResultWith("territory", AnalyzeTerritories(EmptyDict, rows), plan))

\* the pipeline runs that filled the collection the agent reads: a source and
\* the outcome of its calls
PipelineRuns ==
    {[source |-> <<Row("Acme", "S10", "EMEA", "100")>>,
      plan |-> [rich |-> {}, zero |-> {}]],
     [source |-> <<Row("Acme", "S10", "EMEA", "100"), Row("Bolt", "S18", NaNStr, "100")>>,
      plan |-> [rich |-> {"Acme", "Cars_S18"}, zero |-> {}]],
     [source |-> <<Row("Acme", "S10", "EMEA", "x"), Row("Bolt", "S18", "EMEA", "100")>>,
      plan |-> [rich |-> {"Cars_S10"}, zero |-> {"Bolt", "EMEA"}]]}

\* the points of the collection after the runs, the first `used` ids taken
RECURSIVE StoredBy(_, _)
StoredBy(runs, used) ==
    IF runs = <<>> THEN {}
    ELSE LET last == runs[Len(runs)]
             before == StoredBy(SubSeq(runs, 1, Len(runs) - 1), used)
             embeddings == AllEmbeddingsWith(last.source, last.plan)
         IN  Upsert(before, PointsOf(embeddings, used + Cardinality(before)))

\* the collection after the runs `runs` of the pipeline, none of which cleared it
CollectionAfter(runs) ==
    /\ collection_exists = TRUE
    /\ points = StoredBy(runs, 0)
    /\ next_uuid = Cardinality(StoredBy(runs, 0))
    /\ store_return = "none"
    /\ stored_log = [i \in 1..Len(runs) |->
                        AllEmbeddingsWith(runs[i].source, runs[i].plan)]
    /\ store_calls = Len(runs)
    /\ db_sent = <<>>
    /\ db_outcome = "none"
    /\ search_return = NoSearch
    /\ stats_return = NoStats
    /\ other_requests = <<>>

\* the collection the agent's process finds: filled by up to MaxStores runs of
\* the pipeline
InitCollection ==
    \E runs \in UNION {[1..n -> PipelineRuns] : n \in 0..MaxStores} :
        CollectionAfter(runs)

\* the names asked for
TargetNames == {"acme", "ME", "Zed"}

\* main of run_setup.py on a fresh processor and a database that holds the
\* collection or not: files of one row, where a customer may bear the name of
\* a territory, a file of two customers, and that file with the deal size of
\* the first customer missing
PipelineSources ==
    {<<Row(customer, code, territory, "100")>> :
        customer \in {"Acme", "EMEA"}, code \in ProductCodes,
        territory \in Territories}
    \cup {<<Row("Acme", "S10", "EMEA", "100"), Row("Bolt", "S10", "EMEA", "100")>>,
          <<[Row("Acme", "S10", "EMEA", "100") EXCEPT !.DEALSIZE = NaNStr],
            Row("Bolt", "S10", "EMEA", "100")>>}

PipelineFiles ==
    {[state |-> "missing", rows |-> <<>>], [state |-> "unloadable", rows |-> <<>>]}
        \cup {[state |-> "csv", rows |-> source] : source \in PipelineSources}

InitPipeline ==
    /\ InitProcessor /\ InitGenerator /\ InitAgent /\ InitApp
    /\ InitDatabase

NextPipeline ==
    \/ \E file \in PipelineFiles : Main(file)
    \/ \E qdrant \in {"ok", "down"} : setup_pc = "storage" /\ EnsureList(qdrant)
    \/ \E qdrant \in {"ok", "down"} : setup_pc = "storage" /\ EnsureCreate(qdrant)
    \/ \E qdrant \in {"ok", "down"} : setup_pc = "health" /\ HealthCheck(qdrant)
    \/ \E encoder \in {"ok", "fail"} : MainGenerator(encoder)
    \/ \E kind \in {"customer", "product", "territory"} : MainBatch(kind)
    \/ \E enc \in {"ok", "fail"} : InBatches /\ BatchItem(enc)
    \/ InBatches /\ RateLimitWake(0)
    \/ \E outcome \in {"ok", "fail"}, enc \in {"ok", "fail"} :
            InBatches /\ GroqCall(outcome, enc)
    \/ InBatches /\ BatchReturn
    \/ \E d \in TickSteps : InBatches /\ Tick(d)
    \/ \E qdrant \in {"ok", "down"} : MainStore(qdrant)
    \/ \E qdrant \in {"ok", "down"} : setup_pc = "stats" /\ StatsInfo(qdrant)
    \/ \E qdrant \in {"ok", "down"} : setup_pc = "stats" /\ StatsCount(qdrant)

SpecPipeline == InitPipeline /\ [][NextPipeline]_vars

\* the agent serving requests on a filled collection
InitServing ==
    InitProcessor /\ InitGenerator /\ groq_api_key # "" /\ InitCollection /\ InitAgent /\ InitApp

NextAgent ==
    \/ \E context_type \in {"all", "customer", "product", "territory"},
          enc \in {"ok", "rich", "fail"} : GenerateSalesResponse(context_type, enc)
    \/ \E customer_name \in TargetNames : AnalyzeCustomer(customer_name, "ok")
    \/ \E territory_name \in TargetNames : AnalyzeTerritory(territory_name, "ok")
    \/ \E qdrant \in {"ok", "down"} : SearchStep(qdrant)
    \/ MergeContext
    \/ \E outcome \in {"ok", "fail"} : QueryGroq(outcome)

SpecAgent == InitServing /\ [][NextAgent]_vars

\* the agent serving requests on a collection that is empty or was filled by
\* one run of the pipeline
InitServingOneRun ==
    /\ InitProcessor /\ InitGenerator /\ groq_api_key # "" /\ InitAgent /\ InitApp
    /\ \E runs \in {<<>>} \cup [1..1 -> PipelineRuns] : CollectionAfter(runs)

\* the collection shared with other clients of the database: between two
\* requests of a clear_collection, a get_collection_stats or a construction,
\* another process creates or deletes the collection, or stores the embeddings
\* of a pipeline run of its own
OtherSource == <<Row("Acme", "S10", "EMEA", "100")>>

NextShared ==
    \/ \E qdrant \in {"ok", "down"} : ClearDelete(qdrant)
    \/ \E qdrant \in {"ok", "down"} : EnsureList(qdrant)
    \/ \E qdrant \in {"ok", "down"} : EnsureCreate(qdrant)
    \/ \E qdrant \in {"ok", "down"} : StatsInfo(qdrant)
    \/ \E qdrant \in {"ok", "down"} : StatsCount(qdrant)
    \/ storage_pc # "idle" /\ OtherCreates
    \/ storage_pc # "idle" /\ OtherDeletes
    \/ storage_pc # "idle" /\ OtherStores(AllEmbeddings(CleanData(OtherSource)))

SpecShared == InitServingOneRun /\ [][NextShared]_vars

\* a request in progress goes on: each call made returns
SpecAgentLive ==
    /\ InitServingOneRun /\ [][NextAgent]_vars
    /\ WF_vars(\E qdrant \in {"ok", "down"} : SearchStep(qdrant))
    /\ WF_vars(MergeContext)
    /\ WF_vars(\E outcome \in {"ok", "fail"} : QueryGroq(outcome))

\* two requests served at a time on a collection that one run of the pipeline
\* filled: each thread takes one request, and the threads interleave call by call
NextConcurrent ==
    \/ agent_pc = "idle" /\ GenerateSalesResponse("all", "ok")
    \/ agent_pc = "idle" /\ AnalyzeCustomer("acme", "ok")
    \/ agent_pc = "idle" /\ AnalyzeTerritory("ME", "ok")
    \/ agent_pc = "idle" /\ RecommendProducts("ok")
    \/ agent_pc = "idle" /\ GenerateSalesPitch("rich")
    \/ agent_pc = "idle" /\ GetSalesInsights("ok")
    \/ \E qdrant \in {"ok", "down"} : SearchStep(qdrant)
    \/ MergeContext
    \/ \E outcome \in {"ok", "fail"} : QueryGroq(outcome)
    \/ Switch

SpecConcurrent == InitServingOneRun /\ [][NextConcurrent]_vars

\* the agent serving requests while another client of the database clears the
\* collection
NextClearing ==
    \/ \E context_type \in {"all", "customer"} :
            GenerateSalesResponse(context_type, "ok")
    \/ AnalyzeCustomer("acme", "ok")
    \/ AnalyzeTerritory("ME", "ok")
    \/ RecommendProducts("ok")
    \/ GenerateSalesPitch("ok")
    \/ GetSalesInsights("ok")
    \/ \E qdrant \in {"ok", "down"} : SearchStep(qdrant)
    \/ MergeContext
    \/ \E outcome \in {"ok", "fail"} : QueryGroq(outcome)
    \/ \E qdrant \in {"ok", "down"} : ClearDelete(qdrant)
    \/ \E qdrant \in {"ok", "down"} : InClear /\ EnsureList(qdrant)
    \/ \E qdrant \in {"ok", "down"} : EnsureCreate(qdrant)

SpecClearing == InitServingOneRun /\ [][NextClearing]_vars

\* a run of the pipeline on four customers, the text of the first enriched
ManyCustomersRun ==
    [source |-> <<Row("Acme", "S10", "EMEA", "100"), Row("Bolt", "S10", "EMEA", "100"),
                  Row("Cody", "S10", "EMEA", "100"), Row("Dana", "S10", "EMEA", "100")>>,
     plan |-> [rich |-> {"Acme"}, zero |-> {}]]

\* the agent analysing customers on a collection that one run of the pipeline
\* filled, the database answering every search
InitLookup ==
    /\ InitProcessor /\ InitGenerator /\ groq_api_key # "" /\ InitAgent /\ InitApp
    /\ \E runs \in [1..1 -> PipelineRuns \cup {ManyCustomersRun}] :
            CollectionAfter(runs)

NextLookup ==
    \/ \E customer_name \in TargetNames, enc \in {"ok", "rich", "fail"} :
            AnalyzeCustomer(customer_name, enc)
    \/ SearchStep("ok")
    \/ MergeContext
    \/ \E outcome \in {"ok", "fail"} : QueryGroq(outcome)

SpecLookup == InitLookup /\ [][NextLookup]_vars

\* the minimums and limits of the category searches
Minimums == {None, 0, 1, 50, 100, 150}

Limits == {1, 3, 10}

\* a category search on a filled collection (a search changes nothing in the
\* store, so each behaviour makes one)
NextSearch ==
    /\ search_return = NoSearch
    /\ \E kind \in {"customer", "product", "territory"},
          enc \in {"ok", "rich", "fail"}, min \in Minimums, limit \in Limits,
          qdrant \in {"ok", "down"} :
            Search(kind, enc, min, limit, qdrant)

SpecSearch == InitServing /\ [][NextSearch]_vars

\* the storage calls that answer a failing database with a value, on a filled
\* collection and a database that fails now and then
NextOutage ==
    \/ \E run \in PipelineRuns, qdrant \in {"ok", "down"} :
            StoreEmbeddings(AllEmbeddingsWith(run.source, run.plan), qdrant)
    \/ \E qdrant \in {"ok", "down"} : Search("customer", "ok", None, 10, qdrant)
    \/ \E qdrant \in {"ok", "down"} : StatsInfo(qdrant)
    \/ \E qdrant \in {"ok", "down"} : StatsCount(qdrant)

SpecOutage == InitServing /\ [][NextOutage]_vars

\* the clients of the generation service: the batches of the setup run
\* (run_setup.py), then the requests the agent serves; the agent embeds its
\* queries on an EmbeddingGenerator of its own and never enriches a text
InitGeneration == InitProcessed /\ InitGenerator /\ InitStored /\ InitAgent /\ InitApp

NextGeneration ==
    \/ /\ agent_pc = "idle"
       /\ \/ \E kind \in {"customer", "product", "territory"} : StartBatch(kind)
          \/ \E enc \in {"ok", "fail"} : BatchItem(enc)
          \/ RateLimitWake(0)
          \/ \E outcome \in {"ok", "fail"}, enc \in {"ok", "fail"} :
                GroqCall(outcome, enc)
          \/ BatchReturn
    \/ /\ gen_pc \in {"idle", "returned", "raised"}
       /\ \/ \E context_type \in {"all", "customer"} :
                GenerateSalesResponse(context_type, "ok")
          \/ SearchStep("ok")
          \/ MergeContext
          \/ \E outcome \in {"ok", "fail"} : QueryGroq(outcome)

SpecGeneration == InitGeneration /\ [][NextGeneration]_vars

\* the rate limiter under a passing clock: batches with a credential on one
\* source, every call to the embedding model succeeding
InitRateLimit ==
    /\ InitProcessed
    /\ Keys(customer_profiles) = CustomerNames
    /\ \A c \in CustomerNames : ~CreateCustomerTextRaises(customer_profiles.val[c])
    /\ InitGenerator
    /\ groq_api_key # ""
    /\ InitStorage
    /\ InitAgent /\ InitApp

NextRateLimit ==
    \/ \E kind \in {"customer", "product", "territory"} : StartBatch(kind)
    \/ BatchItem("ok")
    \/ \E late \in {0, 20} : RateLimitWake(late)
    \/ \E outcome \in {"ok", "fail"} : GroqCall(outcome, "ok")
    \/ BatchReturn
    \/ \E d \in TickSteps : Tick(d)

SpecRateLimit == InitRateLimit /\ [][NextRateLimit]_vars

\* time.sleep returns: a sleeping call is woken
SpecRateLimitLive ==
    SpecRateLimit /\ WF_vars(\E late \in {0, 20} : RateLimitWake(late))

----------------------------------------------------------------------------
(* Claims about the vector store *)

\* the store_embeddings calls that succeeded since the collection was last
\* cleared all stored the same dict
SameAggregatesStored ==
    /\ stored_log # <<>>
    /\ \A i \in 1..Len(stored_log) : stored_log[i] = stored_log[1]

\* C1: after any number of pipeline runs over the same aggregates, with no
\* clear_collection in between, the collection holds exactly one point per
\* entity key: a later run overwrites the points of an earlier run.
C1_OnePointPerEntityKey ==
    SameAggregatesStored =>
        /\ \A k \in Keys(stored_log[1]) :
                Cardinality({p \in points : p.payload.key = k}) = 1
        /\ Cardinality(points) = Cardinality(Keys(stored_log[1]))

----------------------------------------------------------------------------
(* Claims about the calls to the generation service *)

\* C2: a failed call to the generation service is retried: enhance_text_with_groq
\* and _query_groq return their fallback value only after the third attempt
\* has failed.
C2_FallbackOnlyAfterThirdAttempt ==
    /\ (call.state = "returned" /\ call.failed)
            => call.attempt_number = STOP_AFTER_ATTEMPT
    /\ (agent_pc = "done" /\ agent_req.failed)
            => agent_req.attempt_number = STOP_AFTER_ATTEMPT

\* C3: when the generation service fails, no exception leaves the calling
\* operation: enhance_text_with_groq returns exactly the base text it was given
\* (and that text is the text of the item's record), and _query_groq returns the
\* error-message string, which becomes the 'response' of the result.
C3_GenerationFailureFallsBack ==
    /\ gen_error # "RetryError"
    /\ call.state # "raised"
    /\ (call.state = "returned" /\ call.failed) =>
            /\ call.returned = call.text
            /\ ~call.returned.enriched
            /\ call.text.key \in Keys(batch.embeddings)
            /\ batch.embeddings.val[call.text.key].text = call.text
    /\ agent_pc # "raised"
    /\ (agent_pc = "done" /\ agent_req.failed) =>
            agent_result.response = ErrorResponse

C3_BothFallbacksTaken ==
    /\ call.state = "returned"
    /\ call.failed
    /\ agent_pc = "done"
    /\ agent_req.failed

----------------------------------------------------------------------------
(* Claims about the rate limiter *)

\* the state right after _check_rate_limit decided: no timestamp of the tracker
\* is RATE_WINDOW seconds old or older; a caller sleeps only on a full window and
\* until the oldest timestamp kept expires, for a positive time of at most the
\* window; a caller that did not sleep found fewer than RATE_LIMIT_REQUESTS
\* timestamps
RateLimitDecision ==
    /\ gen_pc \in {"sleeping", "calling"} =>
            \A i \in 1..Len(rate_limit_tracker) :
                call.current_time - rate_limit_tracker[i] < RATE_WINDOW
    /\ gen_pc = "sleeping" =>
            /\ call.blocked
            /\ Len(rate_limit_tracker) >= RATE_LIMIT_REQUESTS
            /\ call.wake_at = rate_limit_tracker[1] + RATE_WINDOW
            /\ call.wake_at - call.current_time > 0
            /\ call.wake_at - call.current_time <= RATE_WINDOW
    /\ gen_pc = "calling" =>
            /\ call.blocked <=> Len(rate_limit_tracker) > RATE_LIMIT_REQUESTS
            /\ call.blocked => now >= rate_limit_tracker[1] + RATE_WINDOW

\* C4: before each enrichment call the limiter discards the timestamps 60 seconds
\* old or older; on a window that holds RATE_LIMIT_REQUESTS timestamps the caller
\* blocks until the oldest would have expired and then proceeds, otherwise it
\* proceeds at once; the wait is finite, a blocked call always ends up making its
\* request, and the wait never ends in an error.
C4_RateLimiterBlocksThenProceeds ==
    /\ []RateLimitDecision
    /\ [][gen_pc = "sleeping" => gen_pc' \in {"sleeping", "calling"}]_vars
    /\ (gen_pc = "sleeping") ~> (gen_pc = "calling")

C4_BlockedCallProceeded ==
    /\ gen_pc = "calling"
    /\ call.blocked
    /\ Len(rate_limit_tracker) > RATE_LIMIT_REQUESTS

----------------------------------------------------------------------------
(* Claims about batch embedding generation *)

\* the entities of the batch whose text can be created
Processable == {k \in Keys(batch.input) : ~CreateTextRaises(batch.kind, batch.input.val[k])}

\* C5: a failure while processing one entity does not abort the batch: the batch
\* goes on with the next entity and returns records for all other entities.
C5_ItemFailureDoesNotAbortBatch ==
    /\ gen_pc # "raised"
    /\ gen_pc = "returned" => Keys(gen_result) = Processable

\* the batch has called the embedding model, and every call failed
EveryEmbeddingCallFailed ==
    /\ encode_log # <<>>
    /\ \A i \in 1..Len(encode_log) : encode_log[i] = "fail"

\* C6: when every embedding call fails, a batch over N entities returns exactly
\* N records, keyed by exactly the input keys, each with a zero vector and the
\* non-enriched text; nothing is raised.
C6_AllFailGivesBaseTextRecords ==
    (batch.count > 0 /\ gen_pc \in {"returned", "raised"} /\ EveryEmbeddingCallFailed) =>
        /\ gen_pc = "returned"
        /\ Keys(gen_result) = Keys(batch.input)
        /\ \A k \in Keys(gen_result) :
                /\ gen_result.val[k].embedding = Zeros(EMBEDDING_DIMENSION)
                /\ gen_result.val[k].text = BaseText(batch.kind, k)

\* C7: generate_text_embedding fails soft: whenever the embedding model raises,
\* the function returns a vector of EMBEDDING_DIMENSION zeros and does not raise
\* (the item's record is stored with that vector and the loop goes on).
C7_EmbeddingFailureGivesZeroVector ==
    \A i \in 1..Len(encode_log) :
        encode_log[i] = "fail" =>
            LET key == Items(batch.input)[i] IN
            /\ key \in Keys(batch.embeddings)
            /\ Len(batch.embeddings.val[key].embedding) = EMBEDDING_DIMENSION
            /\ \A j \in 1..EMBEDDING_DIMENSION : batch.embeddings.val[key].embedding[j] = 0
            /\ gen_error # "encode"

C7_EmbeddingFailed ==
    /\ gen_pc = "loop"
    /\ encode_log # <<>>
    /\ encode_log[Len(encode_log)] = "fail"
    /\ \E i \in 1..Len(encode_log) : encode_log[i] = "ok"

----------------------------------------------------------------------------
(* Claims about the aggregation engine *)

InUnitInterval(r) == r.den > 0 /\ 0 <= r.num /\ r.num <= r.den

\* C8: for every product, each of the three component ratios of the performance
\* score is within [0,1], and so is performance_score.
C8_ScoreComponentsInUnitInterval ==
    \A k \in Keys(product_catalog) :
        /\ InUnitInterval(product_catalog.val[k].sales_score)
        /\ InUnitInterval(product_catalog.val[k].order_score)
        /\ InUnitInterval(product_catalog.val[k].quantity_score)
        /\ InUnitInterval(product_catalog.val[k].performance_score)

RECURSIVE SumShareNum(_, _)
SumShareNum(ta, keys) ==
    IF keys = {} THEN 0
    ELSE LET k == CHOOSE k \in keys : TRUE
         IN  ta.val[k].market_share.num + SumShareNum(ta, keys \ {k})

\* C9: when the total sales are not zero, the market shares of all territory
\* analyses sum to 100, also with transactions whose territory is missing.
C9_MarketSharesSumTo100 ==
    (proc_result = "summary" /\ ColSum(Col(df.rows, "SALES")) # 0) =>
        SumShareNum(territory_analysis, Keys(territory_analysis))
            = 100 * ColSum(Col(df.rows, "SALES"))

\* C10: for every customer profile, avg_order_value = total_sales / total_orders
\* and total_orders is the number of deduplicated transactions of that customer,
\* also when some sales amounts are missing.
C10_AvgOrderValueIsSalesOverOrders ==
    proc_result = "summary" =>
        \A c \in Keys(customer_profiles) :
            LET p == customer_profiles.val[c] IN
            /\ p.total_orders = Len(Group(df.rows, "CUSTOMERNAME", c))
            /\ p.total_orders > 0
            /\ p.avg_order_value.den > 0
            /\ p.avg_order_value.num * p.total_orders
                   = p.total_sales * p.avg_order_value.den

\* the steps of a request that ran to its generation call: one embedding, one
\* search per category of the scope, the sort, the prompt, the generation call
RequestSteps(context_type) ==
    <<"embed">> \o [i \in 1..Len(SearchPlan(context_type)) |-> "search"]
                \o <<"sort", "format", "generate">>

\* s is the beginning of t
IsPrefix(s, t) == Len(s) <= Len(t) /\ SubSeq(t, 1, Len(s)) = s

\* a request is being served
RequestRunning == agent_pc \in {"retrieving", "generating"}

\* a request has ended: with a returned result (DONE) or with an exception (ERROR)
RequestEnded == agent_pc \in {"done", "raised"}

\* C11: every request runs its steps in one fixed order: the query is embedded
\* exactly once, then the category searches of the scope are issued, then the
\* results are sorted, then the prompt is formatted, then the generation service
\* is called; the generation service is never called before every search of the
\* scope has returned; every request eventually ends, returning a result or
\* raising, and an ended request takes no further step (the next step is the
\* embedding of a new request).
C11_RequestStepsInFixedOrder ==
    /\ [](agent_req.op # "none" =>
            /\ IsPrefix(agent_req.steps, RequestSteps(agent_req.context_type))
            /\ agent_req.steps # <<>> /\ agent_req.steps[1] = "embed"
            /\ agent_pc = "generating" =>
                    /\ agent_req.todo = <<>>
                    /\ Len(agent_req.searches) = Len(SearchPlan(agent_req.context_type))
            /\ agent_pc = "done" /\ agent_result.status = "ok" =>
                    agent_req.steps = RequestSteps(agent_req.context_type))
    /\ [][RequestEnded /\ agent_req' # agent_req =>
                agent_pc' = "retrieving" /\ agent_req'.steps = <<"embed">>]_vars
    /\ (RequestRunning ~> RequestEnded)

\* a query on every category was answered: all its steps were taken
C11_RequestServed ==
    /\ agent_pc = "done"
    /\ agent_req.op = "generate_sales_response"
    /\ agent_req.context_type = "all"
    /\ agent_result.status = "ok"
    /\ agent_req.steps = <<"embed", "search", "search", "search", "sort", "format",
                           "generate">>
    /\ agent_req.context_results # <<>>

\* the searches the scopes are to issue, with their caps
ScopeSearches(context_type) ==
    CASE context_type = "all" -> <<[kind |-> "customer", limit |-> 3],
                                   [kind |-> "product", limit |-> 3],
                                   [kind |-> "territory", limit |-> 2]>>
      [] context_type = "customer" -> <<[kind |-> "customer", limit |-> 3]>>
      [] context_type = "product" -> <<[kind |-> "product", limit |-> 3]>>
      [] context_type = "territory" -> <<[kind |-> "territory", limit |-> 2]>>

\* the most results a scope can merge
ScopeCap(context_type) == IF context_type = "all" THEN 8
                          ELSE IF context_type = "territory" THEN 2 ELSE 3

\* C12: the searches retrieve_context has issued are the first searches of its
\* scope, and all of them once retrieval is over: customer (cap 3), product
\* (cap 3) and territory (cap 2) for 'all', the one matching search for a single
\* scope; each search returns at most its cap of records, all of its own entity
\* type, so the merged context holds at most 8 results for 'all' and at most 3,
\* 3 and 2 for 'customer', 'product' and 'territory'.
C12_SearchesAndCapsOfScope ==
    agent_req.op # "none" =>
        LET issued == agent_req.searches
            scope == ScopeSearches(agent_req.context_type)
        IN  /\ Len(issued) <= Len(scope)
            /\ \A i \in 1..Len(issued) :
                    /\ issued[i].kind = scope[i].kind
                    /\ issued[i].limit = scope[i].limit
                    /\ Len(issued[i].results) <= scope[i].limit
                    /\ \A j \in 1..Len(issued[i].results) :
                            issued[i].results[j].payload.type = issued[i].kind
            /\ agent_pc # "retrieving" => Len(issued) = Len(scope)
            /\ Len(agent_req.emitted) <= ScopeCap(agent_req.context_type)
            /\ Len(agent_req.context_results) <= ScopeCap(agent_req.context_type)

\* a query on every category merged 8 results from a collection that holds more
\* than the cap of each entity type
C12_EveryCapReached ==
    /\ agent_pc = "done"
    /\ agent_req.context_type = "all"
    /\ Len(agent_req.context_results) = 8
    /\ TypeCount("customer") > 3
    /\ TypeCount("product") > 3
    /\ TypeCount("territory") > 2

\* the results of the issued searches, one search after the other
RECURSIVE Concatenation(_)
Concatenation(searches) ==
    IF searches = <<>> THEN <<>>
    ELSE Concatenation(SubSeq(searches, 1, Len(searches) - 1))
         \o searches[Len(searches)].results

\* the position of a result in a list that holds it once
Position(list, r) == CHOOSE i \in 1..Len(list) : list[i] = r

\* the order the categories are searched in
CategoryOrder(type) ==
    CASE type = "customer" -> 1 [] type = "product" -> 2 [] type = "territory" -> 3

\* retrieve_context has sorted its results
RetrievalSorted == \E i \in 1..Len(agent_req.steps) : agent_req.steps[i] = "sort"

\* C13: the results retrieve_context returns are the results of the searches it
\* issued, customer results before product results before territory results as
\* emitted, re-ordered by descending score; two results of equal score keep the
\* order in which the searches emitted them.
C13_MergeSortedStable ==
    RetrievalSorted =>
        LET emitted == agent_req.emitted
            merged == agent_req.context_results
        IN  /\ emitted = Concatenation(agent_req.searches)
            /\ \A i, j \in 1..Len(emitted) :
                    i < j => /\ emitted[i] # emitted[j]
                             /\ CategoryOrder(emitted[i].payload.type)
                                    <= CategoryOrder(emitted[j].payload.type)
            /\ Len(merged) = Len(emitted)
            /\ {merged[i] : i \in 1..Len(merged)}
                    = {emitted[i] : i \in 1..Len(emitted)}
            /\ \A i, j \in 1..Len(merged) :
                    i < j => merged[i].score >= merged[j].score
            /\ \A i, j \in 1..Len(emitted) :
                    i < j /\ emitted[i].score = emitted[j].score
                        => Position(merged, emitted[i]) < Position(merged, emitted[j])

\* the sort moved a result before one emitted earlier, and kept two results of
\* equal score from different categories in the order emitted
C13_ReorderedWithTies ==
    /\ RetrievalSorted
    /\ agent_req.context_type = "all"
    /\ LET emitted == agent_req.emitted
           merged == agent_req.context_results
       IN  /\ \E i, j \in 1..Len(emitted) :
                    /\ i < j
                    /\ Position(merged, emitted[j]) < Position(merged, emitted[i])
           /\ \E i, j \in 1..Len(emitted) :
                    /\ i < j
                    /\ emitted[i].score = emitted[j].score
                    /\ emitted[i].payload.type # emitted[j].payload.type

\* the prompt of the request was formatted
PromptFormatted == agent_pc = "generating" \/ (agent_pc = "done" /\ agent_result.status = "ok")

\* C14: a query of scope 'customer' on a store that holds no customer point (the
\* empty store above all) retrieves nothing, the prompt passed to the generation
\* service is the no-context marker, and the result returned counts 0 context
\* results; format_context never renders an empty string: the prompt of an empty
\* result set is the marker.
C14_EmptyContextGivesMarker ==
    /\ PromptFormatted => agent_req.prompt # <<>>
    /\ PromptFormatted /\ agent_req.context = <<>> => agent_req.prompt = <<NoContext>>
    /\ /\ PromptFormatted
       /\ agent_req.op = "generate_sales_response"
       /\ agent_req.context_type = "customer"
       /\ TypeCount("customer") = 0
       => /\ agent_req.context_results = <<>>
          /\ agent_req.prompt = <<NoContext>>
          /\ agent_pc = "done" => /\ agent_result.status = "ok"
                                  /\ agent_result.context_used = 0

\* a query of scope 'customer' on the empty store was answered
C14_AnsweredOnEmptyStore ==
    /\ agent_pc = "done"
    /\ agent_req.op = "generate_sales_response"
    /\ agent_req.context_type = "customer"
    /\ points = {}
    /\ agent_result.status = "ok"
    /\ agent_result.response = Answer
    /\ agent_result.context_used = 0
    /\ agent_req.prompt = <<NoContext>>

\* the generation service was called for the request
GenerationCalled == \E i \in 1..Len(agent_req.steps) : agent_req.steps[i] = "generate"

\* the retrieved results whose key holds the name asked for, whatever the case
\* of the letters
KeyHoldsName(r) ==
    \/ agent_req.name = "acme" /\ r.payload.key = "Acme"
    \/ agent_req.name = "ME" /\ r.payload.key \in {"EMEA", "Acme"}

\* C15: the results an analysis keeps are the retrieved results whose key holds
\* the name asked for, compared without case. When none is kept,
\* analyze_customer returns the not-found result with its suggestions and the
\* generation service is not called, while analyze_territory goes on: its prompt
\* is the no-context marker, the generation service is called, and the result
\* returned holds the analysis and empty territory data.
C15_NoMatchNotFoundOrProceeds ==
    agent_req.op \in {"analyze_customer", "analyze_territory"} /\ RetrievalSorted =>
        /\ agent_req.context = SelectSeq(agent_req.context_results, KeyHoldsName)
        /\ agent_req.op = "analyze_customer" /\ agent_req.context = <<>> =>
                /\ agent_pc = "done"
                /\ agent_result.status = "not_found"
                /\ agent_result.response = NotFound
                /\ ~GenerationCalled
        /\ agent_result.status = "not_found" =>
                agent_req.op = "analyze_customer" /\ agent_req.context = <<>>
        /\ agent_req.op = "analyze_territory" /\ agent_req.context = <<>> =>
                /\ agent_pc \in {"generating", "done"}
                /\ agent_req.prompt = <<NoContext>>
                /\ agent_pc = "done" => /\ GenerationCalled
                                        /\ agent_result.status = "ok"
                                        /\ agent_result.response \in {Answer, ErrorResponse}
                                        /\ agent_result.data = <<>>
        /\ agent_pc = "done" /\ agent_req.context # <<>> =>
                /\ GenerationCalled
                /\ agent_result.status = "ok"
                /\ agent_result.data = <<agent_req.context[1].payload>>

\* an analysis of a territory that no retrieved key names was returned
C15_TerritoryAnalysisWithoutMatch ==
    /\ agent_pc = "done"
    /\ agent_req.op = "analyze_territory"
    /\ agent_req.context_results # <<>>
    /\ agent_req.context = <<>>
    /\ GenerationCalled
    /\ agent_result.status = "ok"
    /\ agent_result.data = <<>>

\* a is b with some elements left out, the others in the order of b
RECURSIVE IsSubList(_, _)
IsSubList(a, b) ==
    \/ a = <<>>
    \/ /\ b # <<>>
       /\ IF Head(a) = Head(b) THEN IsSubList(Tail(a), Tail(b))
          ELSE IsSubList(a, Tail(b))

\* what the search made returns when it is given no minimum and is answered
SearchWithoutMinimum ==
    CategorySearch(search_return.kind, QueryVector(search_return.enc), None,
                   search_return.limit, "ok")

\* C16: a category search with a minimum returns a sub-list, in the same order,
\* of what the same search returns without the minimum: never more results,
\* possibly fewer; and the search sends exactly one request to the store,
\* whatever the minimum left out.
C16_MinimumGivesSubList ==
    search_return # NoSearch =>
        /\ IsSubList(search_return.results, SearchWithoutMinimum)
        /\ Len(search_return.results) <= Len(SearchWithoutMinimum)
        /\ Len(search_return.results) <= search_return.limit
        /\ db_sent = <<"search">>

\* a search with a minimum returned fewer results than the search without it,
\* while a point left out by the limit reaches the minimum
C16_FewerAndNoBackfill ==
    /\ search_return # NoSearch
    /\ search_return.kind = "customer"
    /\ search_return.min # None
    /\ search_return.results # <<>>
    /\ Len(search_return.results) < Len(SearchWithoutMinimum)
    /\ \E p \in points :
            /\ p.payload.type = "customer"
            /\ AtLeast(p.payload.metadata.total_sales, search_return.min)
            /\ \A i \in 1..Len(SearchWithoutMinimum) : SearchWithoutMinimum[i].id # p.id

\* C17: when a request to the vector database fails during store_embeddings,
\* search_similar or get_collection_stats, the exception is caught:
\* store_embeddings returns False, the search returns the empty list,
\* get_collection_stats returns the empty map, and none of the three raises to
\* its caller.
C17_DatabaseFailureGivesValue ==
    /\ db_outcome # "raised"
    /\ db_outcome = "caught" =>
            /\ db_sent[1] \in {"upsert", "search", "get_collection"}
            /\ db_sent[1] = "upsert" => store_return = "False"
            /\ db_sent[1] = "search" => search_return.results = <<>>
            /\ db_sent[1] = "get_collection" => stats_return = NoStats

\* on a collection that holds customers, a store_embeddings returned False, a
\* search returned the empty list, and a get_collection_stats has just returned
\* the empty map, its second count request having failed
C17_EveryCallFailedOnce ==
    /\ TypeCount("customer") > 0
    /\ store_return = "False"
    /\ search_return # NoSearch
    /\ search_return.results = <<>>
    /\ db_outcome = "caught"
    /\ db_sent = <<"get_collection", "count", "count">>
    /\ stats_return.empty

\* an _ensure_collection call has just returned, having sent `requests`
EnsureReturned(requests) == db_outcome' = "returned" /\ db_sent' = requests

\* what a returned _ensure_collection call did: nothing on an existing
\* collection, the creation of an empty collection on an absent one
EnsureEffect ==
    /\ EnsureReturned(<<"get_collections">>) =>
            /\ collection_exists /\ collection_exists'
            /\ points' = points
    /\ EnsureReturned(<<"get_collections", "create_collection">>) =>
            /\ ~collection_exists /\ collection_exists'
            /\ points' = {}

\* C18: _ensure_collection is idempotent. On any collection it leaves an
\* existing collection as it is and a second call changes nothing more; a call
\* that returns on an existing collection sends no create request and leaves
\* the stored points unchanged, and a call creates the collection (empty) only
\* when it was absent.
C18_EnsureCollectionIdempotent ==
    /\ [](/\ collection_exists => EnsuredCollection(Collection) = Collection
          /\ EnsuredCollection(Collection).exists
          /\ EnsuredCollection(EnsuredCollection(Collection))
                = EnsuredCollection(Collection))
    /\ [][EnsureEffect]_vars

\* _ensure_collection has just returned on a collection that holds points
C18_EnsuredFilledCollection ==
    /\ db_outcome = "returned"
    /\ db_sent = <<"get_collections">>
    /\ collection_exists
    /\ points # {}

\* store_embeddings was called on the empty dict
StoreOfNothing == \E qdrant \in {"ok", "down"} : StoreEmbeddings(EmptyDict, qdrant)

\* what such a call does
StoreOfNothingEffect ==
    StoreOfNothing =>
        /\ store_return' = "True"
        /\ db_sent' = <<>>
        /\ db_outcome' = "returned"
        /\ collection_exists' = collection_exists
        /\ points' = points

\* C19: store_embeddings on an empty input returns True, whether the database
\* answers or not, sends no request to the database and leaves the collection
\* and its points, so its point counts, unchanged.
C19_EmptyStoreIsNoOp ==
    /\ [](db_sent = <<>> /\ db_outcome = "returned" => store_return = "True")
    /\ [][StoreOfNothingEffect]_vars

\* store_embeddings has just returned on an empty input, on a collection that
\* earlier calls filled
C19_NothingStoredOnFilledCollection ==
    /\ db_sent = <<>>
    /\ db_outcome = "returned"
    /\ store_return = "True"
    /\ points # {}
    /\ store_calls > Len(stored_log)

\* the call just made, or in progress, is clear_collection
ClearJustCalled == db_sent # <<>> /\ db_sent[1] = "delete_collection"

\* a step ends a clear_collection: its delete_collection fails, or its
\* _ensure_collection returns or raises
ClearEnds ==
    \E qdrant \in {"ok", "down"} :
        \/ ClearDelete(qdrant) /\ storage_pc' = "idle"
        \/ InClear /\ EnsureList(qdrant) /\ storage_pc' = "idle"
        \/ InClear /\ EnsureCreate(qdrant)

\* a clear_collection that returns True leaves the collection present and empty
ClearedExistsEmpty ==
    (ClearEnds /\ store_return' = "True") =>
        /\ collection_exists'
        /\ points' = {}

\* C20: whenever clear_collection returns True, the collection was dropped and
\* created again: it exists and holds no point, whatever it held before.
C20_ClearedCollectionExistsEmpty == [][ClearedExistsEmpty]_vars

\* a clear_collection during which no other client had a request answered,
\* and that returns True, has sent its three requests and leaves the collection
\* present and empty
UndisturbedClearedExistsEmpty ==
    (ClearEnds /\ store_return' = "True" /\ other_requests' = <<>>) =>
        /\ db_sent' = <<"delete_collection", "get_collections", "create_collection">>
        /\ db_outcome' = "returned"
        /\ collection_exists'
        /\ points' = {}

\* C20, amended: whenever clear_collection returns True and no other client of
\* the database had a request answered between its delete_collection and its
\* return, the collection was dropped and created again: it exists and holds no
\* point, whatever it held before.
C20_UndisturbedClearGivesEmptyCollection == [][UndisturbedClearedExistsEmpty]_vars

\* clear_collection has just returned True on a collection that pipeline runs
\* had filled, no other client having acted meanwhile
C20_FilledCollectionCleared ==
    /\ ClearJustCalled
    /\ storage_pc = "idle"
    /\ store_return = "True"
    /\ other_requests = <<>>
    /\ storage_locals.held # {}
    /\ points = {}

\* C21: startup fails fast: when the generation-service credential is absent or
\* the data source is missing or present but not loadable, lifespan raises and
\* the application never serves a request: an application that serves has its
\* credential and a processor whose process_all loaded the source.
C21_StartupFailsFast ==
    Serving => groq_api_key # "" /\ proc_result \notin {"none", "load_error"}

\* C22: when loading fails, process_all reports a load error and runs no
\* aggregation step: after such a call on a fresh processor the frame is still
\* None and the customer, product and territory collections are all empty.
C22_LoadErrorLeavesCollectionsEmpty ==
    (proc_runs = 1 /\ proc_result = "load_error") =>
        /\ df.is_none
        /\ customer_profiles = EmptyDict
        /\ product_catalog = EmptyDict
        /\ territory_analysis = EmptyDict

\* the first process_all of a processor has returned the load error
C22_LoadFailedOnFreshProcessor ==
    /\ proc_runs = 1
    /\ proc_result = "load_error"
    /\ startup = "not_started"

\* C23: the cleaning step never raises on an unparsable value: an unparsable
\* order date or sales amount becomes missing, and process_all goes on to the
\* aggregation steps; so the frame of a processor whose process_all loaded a
\* source has its columns converted.
C23_CleaningNeverRaises ==
    (proc_runs > 0 /\ proc_result # "load_error") => df.cleaned

\* C24: a second process_all on the same processor overwrites rather than
\* merges: after a run that returned its summary, the three collections hold
\* exactly the entities of the latest source, and no key of an earlier run only.
C24_SecondRunOverwrites ==
    proc_result = "summary" =>
        /\ Keys(customer_profiles) = GroupKeys(df.rows, "CUSTOMERNAME")
        /\ Keys(product_catalog) = {ProductKey(p) : p \in ProductGroups(df.rows)}
        /\ Keys(territory_analysis) = GroupKeys(df.rows, "TERRITORY")

\* the result of a request that ran alone on the collection as it is: each of
\* its searches was answered from the stored points or failed, the results were
\* sorted, those of the entity kept, and the dict built from them
ServedAsAlone(pc, req, result) ==
    pc = "done" =>
        LET plan == SearchPlan(req.context_type)
            context == EntityContext(req.op, req.name,
                                     SortByScore(Concatenation(req.searches)))
        IN  /\ Len(req.searches) = Len(plan)
            /\ \A i \in 1..Len(plan) :
                    /\ req.searches[i].kind = plan[i].kind
                    /\ req.searches[i].results \in
                            {CategorySearch(plan[i].kind, QueryVector(req.query),
                                            None, plan[i].limit, qdrant) :
                                qdrant \in {"ok", "down"}}
            /\ result =
                 IF req.op = "analyze_customer" /\ context = <<>>
                 THEN [status |-> "not_found", response |-> NotFound,
                       context_used |-> 0, data |-> <<>>]
                 ELSE [status |-> "ok",
                       response |-> IF req.failed THEN ErrorResponse ELSE Answer,
                       context_used |-> Len(context),
                       data |-> IF req.op \in {"analyze_customer", "analyze_territory"}
                                   /\ context # <<>>
                                THEN <<context[1].payload>>
                                ELSE <<>>]

\* no step of a request changes the collection, and after each step the requests
\* that have returned returned what they would have returned alone
ConcurrentStep ==
    /\ UNCHANGED <<collection_exists, points>>
    /\ ServedAsAlone(agent_pc', agent_req', agent_result')
    /\ ServedAsAlone(peer_pc', peer_req', peer_result')

\* C25: retrieval requests are read-only and safe to run concurrently: under any
\* interleaving of two requests of the agent, the stored points are unchanged and
\* each request returns what it would return if it ran alone.
C25_ConcurrentRequestsReadOnly == [][ConcurrentStep]_vars

\* a request has returned with context while a request of another operation,
\* begun and suspended, is between its retrieval and its generation call
C25_ReturnedBesideSuspendedRequest ==
    /\ agent_pc = "done"
    /\ agent_result.context_used > 0
    /\ peer_pc = "generating"
    /\ peer_req.op # agent_req.op
    /\ peer_req.context # <<>>

\* C26: for every sequence of enrichment calls, at most RATE_LIMIT_REQUESTS
\* requests to the generation service start within any interval of 60 seconds, a
\* blocked call counting at the time it proceeds after its wait.
C26_StartsWithinWindowBounded == Len(groq_starts) <= RATE_LIMIT_REQUESTS

\* the request has issued a search, and each of its searches ran while the
\* collection was deleted
SearchedWhileDeleted ==
    /\ agent_req.searches # <<>>
    /\ \A i \in 1..Len(agent_req.searches) : ~agent_req.searches[i].collection

\* no request has raised, and each search issued while the collection was
\* deleted came back as the empty list
DeletedSearchesEmpty ==
    /\ agent_pc # "raised"
    /\ \A i \in 1..Len(agent_req.searches) :
            ~agent_req.searches[i].collection => agent_req.searches[i].results = <<>>

\* the request goes on with no context
ZeroContext ==
    /\ agent_pc \in {"generating", "done"} =>
            agent_req.context = <<>> /\ agent_req.emitted = <<>>
    /\ agent_pc = "done" => agent_result.context_used = 0 /\ agent_result.data = <<>>

\* the request has taken the step
Took(step) == \E i \in 1..Len(agent_req.steps) : agent_req.steps[i] = step

\* C27 as stated: a retrieval request whose searches run after the collection
\* was deleted by clear_collection and before it is recreated does not raise: the
\* searches return the empty list, and the request completes with zero context
\* and the no-context marker as its formatted context.
C27_SearchDuringClearGivesMarker ==
    /\ DeletedSearchesEmpty
    /\ SearchedWhileDeleted =>
            /\ ZeroContext
            /\ agent_pc = "done" => agent_req.prompt = <<NoContext>>

\* C27: a retrieval request whose searches all run after the collection was
\* deleted by clear_collection and before it is recreated does not raise: each
\* search returns the empty list and the request goes on with zero context. Every
\* operation but analyze_customer formats the no-context marker, calls the
\* generation service with it and returns a result that counts 0 context;
\* analyze_customer returns its not-found result, with neither a formatted
\* context nor a call of the generation service.
C27_SearchDuringClearGivesNoContext ==
    /\ DeletedSearchesEmpty
    /\ SearchedWhileDeleted =>
            /\ ZeroContext
            /\ agent_pc = "generating" =>
                    agent_req.op # "analyze_customer" /\ agent_req.prompt = <<NoContext>>
            /\ agent_pc = "done" =>
                    IF agent_req.op = "analyze_customer"
                    THEN /\ agent_result.status = "not_found"
                         /\ agent_result.response = NotFound
                         /\ agent_req.prompt = <<>>
                         /\ ~Took("format") /\ ~Took("generate")
                    ELSE /\ agent_result.status = "ok"
                         /\ agent_req.prompt = <<NoContext>>
                         /\ Took("generate")

\* a query on every category, on a filled collection, has completed with the
\* marker: its three searches ran between the delete and the recreate of a
\* clear_collection, which has not created the collection again
C27_ServedWhileCollectionDeleted ==
    /\ InClear
    /\ ~collection_exists
    /\ next_uuid > 0
    /\ SearchedWhileDeleted
    /\ Len(agent_req.searches) = 3
    /\ agent_pc = "done"
    /\ agent_result.status = "ok"
    /\ agent_req.prompt = <<NoContext>>
    /\ agent_result.context_used = 0

\* C28: the pipeline stores one record per entity: the number of records passed
\* to store_embeddings is the number of customers plus products plus
\* territories of the processor, also when a customer name, a product key and a
\* territory name coincide as strings.
C28_OneRecordPerEntity ==
    (proc_result = "summary" /\ db_sent = <<"upsert">> /\ store_return = "True") =>
        Cardinality(Keys(stored_log[Len(stored_log)])) =
            Cardinality(Keys(customer_profiles))
                + Cardinality(Keys(product_catalog))
                + Cardinality(Keys(territory_analysis))

\* C29: analyze_customer returns the not-found result only when no customer
\* record of the store has a key containing the target name (case-insensitive):
\* a stored record of the customer is found and analysed, whatever its
\* similarity rank among the stored customers.
C29_StoredCustomerIsFound ==
    (agent_pc = "done" /\ agent_req.op = "analyze_customer"
        /\ agent_result.status = "not_found") =>
        ~\E p \in points : p.payload.type = "customer" /\ NameMatches(agent_req.name, p)

\* a clear_collection returns and leaves the collection absent, or returns
\* False and leaves other points than it found
ClearLosesCollection ==
    /\ ClearEnds
    /\ \/ ~collection_exists'
       \/ store_return' = "False" /\ points' # storage_locals'.held

\* C30: clear_collection never leaves the store without the target collection:
\* after the call returns, with True or with False, the collection exists, and
\* when it returns False the stored points are those of before the call.
C30_ClearNeverLosesCollection == [][~ClearLosesCollection]_vars

====
